---- MODULE Spec2Model ----
(***************************************************************************)
(* The offline-first synchronisation core of the routines collection:      *)
(* the useRoutines hook (src/src/hooks/useRoutines.ts) over the IndexedDB  *)
(* Local Store (src/src/utils/offlineStorage.ts) and the remote backend.   *)
(*                                                                         *)
(* Records are TLA+ records that always carry every field; a JavaScript    *)
(* flag that is absent, undefined or false is FALSE here.  The stamps      *)
(* _lastUpdated and _needsSync that saveToIndexedDB adds are never read by *)
(* the hook and are not carried.  Ids are numbers: a server-issued id is   *)
(* below TempBase, a locally generated "temp-..." id is above it, which is *)
(* also their order as IndexedDB keys (hex digits sort before "t").        *)
(***************************************************************************)
EXTENDS Integers, Sequences, FiniteSets, TLC

VARIABLES
  server,          \* remote backend: routine id -> routine (with its slots)
  nextRid,         \* next routine id the backend issues
  nextSid,         \* next slot id the backend issues
  db,              \* Local Store, routines collection: id -> record
  routines,        \* the hook's in-memory state: id -> record
  isOffline,       \* useOfflineStatus()
  loadPending,     \* offline: the load effect has been scheduled and has not run yet
  syncInProgress,  \* the hook's syncInProgress state
  renderedSync,    \* syncInProgress as captured by the closures of the last render
  nextTemp,        \* number of temp routine ids generated so far
  nextTempSlot,    \* number of temp slot ids generated so far
  pass,            \* the syncOfflineChanges calls in flight: pass id -> locals
  tempSent,        \* history: some remote call carried a temp id as identifier
  ops,             \* number of mutations the user has made
  error,           \* the hook's error state (the message shown to the user)
  idb,             \* the IndexedDB database on disk: its version and object stores
  idbOldVersion,   \* event.oldVersion of the last upgrade, -1 when none has run
  caches,          \* CacheStorage: cache name -> (URL -> stored response)
  swInstalled,     \* the worker's install event has completed
  lastRequest,     \* the request of the last fetch event
  lastStrategy,    \* the strategy the handler applied to it
  lastNet,         \* how the network answered the fetch of that event
  lastResponse,    \* what the page got for it
  fetches,         \* number of fetch events so far
  generation,      \* CACHE_NAME of the worker that controls the pages
  pending,         \* the background work of fetch handlers still running
  registered,      \* the worker script that controls the pages
  asked,           \* the assets of the precacheAssets messages posted so far
  reachable,       \* the URLs the network can serve
  precaching,      \* the asset lists whose cache.addAll is still running
  activations,     \* the online activateRoutine calls, each at its await
  collection,      \* a critical collection as the worker's syncData sees it
  syncPc,          \* where the worker's syncData is for that collection
  itemsToSync,     \* the items syncData sent to the server
  syncResult,      \* the server's sync result that syncData applied
  updateInProgress,\* serviceWorkerUtils: the module flag of applyUpdate
  applyCalls,      \* the applyUpdate calls, each at its await, and its result
  swSupported,     \* 'serviceWorker' in navigator
  registration,    \* registrations[0]: none, or its worker active or waiting
  estimate,        \* what navigator.storage.estimate() reports, or none
  storeData,       \* the keys of the records of each store of the database
  storagePc,       \* where initOfflineStorage is
  toClear,         \* the stores clearNonCriticalData has still to clear
  clearCalls,      \* how often clearNonCriticalData was called
  clearedStores    \* the stores clearIndexedDBStore was called for

\* the state of the useRoutines hook, its Local Store collection and its backend
hookVars == <<server, nextRid, nextSid, db, routines, isOffline, loadPending,
              syncInProgress, renderedSync, nextTemp, nextTempSlot, pass, tempSent, ops,
              error>>

\* the state of the database schema
dbVars == <<idb, idbOldVersion>>

\* the state of the service worker
swVars ==
  <<caches, swInstalled, lastRequest, lastStrategy, lastNet, lastResponse, fetches,
    generation, pending>>

\* the control messages of the page to the worker
msgVars == <<registered, asked, reachable, precaching>>

\* the online activateRoutine calls in flight
callVars == <<activations>>

\* the worker's syncData on one critical collection
syncVars == <<collection, syncPc, itemsToSync, syncResult>>

\* applyUpdate and what it reads of the platform
updVars == <<updateInProgress, applyCalls, swSupported, registration>>

\* initOfflineStorage and what it reads of the platform
storVars == <<estimate, storeData, storagePc, toClear, clearCalls, clearedStores>>

\* the state of the page and the worker outside the variables above
pageVars == <<callVars, syncVars, updVars, storVars>>

vars == <<hookVars, dbVars, swVars, msgVars, pageVars>>

----------------------------------------------------------------------------
(* Bounds of the model *)

MaxOps == 3              \* mutations the user makes in a run
MaxConcOps == 1          \* the same, where handlers and passes interleave
MaxFailOps == 2          \* the same, where remote calls and the store can fail
MaxTempRoutines == 1     \* routines created offline
MaxTempSlots == 1        \* slots created offline
MaxServerRoutines == 4   \* highest routine id the backend issues
MaxServerSlots == 2      \* highest slot id the backend issues
MaxStoreKey == 2         \* keys of the records a store of the database holds
MaxFetches == 2          \* fetch events the service worker handles
MaxStepFetches == 2      \* fetch events of an interleaved run of the worker
MaxPending == 2          \* background tasks of fetch handlers in flight
MaxMessages == 2         \* precacheAssets messages whose addAll is in flight
MaxSyncKey == 2          \* keys of the items the worker's syncData handles
MaxQuotaMB == 1024       \* the largest quota and usage of a storage estimate, in MB

TempBase == 100
Names == {1}            \* what the user types; the backend's initial names are 0
Passes == {1, 2}

\* the activateRoutine calls that can overlap
Calls == {1, 2}

\* the applyUpdate calls that can overlap
Updates == {1, 2}

IsTempId(id) == id > TempBase
IsTempSlotId(id) == id > TempBase

----------------------------------------------------------------------------
(* JavaScript object and array idioms *)

\* {...a, ...b}
Spread(a, b) ==
  [f \in DOMAIN a \cup DOMAIN b |-> IF f \in DOMAIN b THEN b[f] ELSE a[f]]

\* const {f1, f2, ...rest} = r
Omit(r, fs) == [f \in DOMAIN r \ fs |-> r[f]]

RECURSIVE SeqFilterOut(_, _)
\* array.filter(s => s.id !== id)
SeqFilterOut(s, id) ==
  IF s = <<>> THEN <<>>
  ELSE IF Head(s).id = id THEN SeqFilterOut(Tail(s), id)
       ELSE <<Head(s)>> \o SeqFilterOut(Tail(s), id)

\* array.map(s => s.id === id ? {...s, ...patch} : s)
SeqPatch(s, id, patch) ==
  [i \in DOMAIN s |-> IF s[i].id = id THEN Spread(s[i], patch) ELSE s[i]]

SeqIds(s) == {s[i].id : i \in DOMAIN s}

RECURSIVE SortedIds(_)
\* the keys of a store in ascending key order
SortedIds(S) ==
  IF S = {} THEN <<>>
  ELSE LET m == CHOOSE x \in S : \A y \in S : x <= y
       IN <<m>> \o SortedIds(S \ {m})

----------------------------------------------------------------------------
(* Records *)

CleanSlot(id, name) ==
  [id |-> id, name |-> name,
   _isOffline |-> FALSE, _isOfflineUpdated |-> FALSE, _isOfflineDeleted |-> FALSE]

CleanRoutine(id, name, active, slots) ==
  [id |-> id, name |-> name, isActive |-> active, slots |-> slots,
   _isOffline |-> FALSE, _isOfflineUpdated |-> FALSE, _isOfflineDeleted |-> FALSE,
   _needsActivationSync |-> FALSE, _needsDeactivationSync |-> FALSE]

SlotPending(s) == s._isOffline \/ s._isOfflineUpdated \/ s._isOfflineDeleted

----------------------------------------------------------------------------
(* The Local Store: an object store keyed by id *)

Empty == [i \in {} |-> 0]

\* store.put(record): upsert by key
Put(store, r) ==
  [i \in DOMAIN store \cup {r.id} |-> IF i = r.id THEN r ELSE store[i]]

\* store.put for each record of a collection
PutAll(store, recs) ==
  [i \in DOMAIN store \cup DOMAIN recs |-> IF i \in DOMAIN recs THEN recs[i] ELSE store[i]]

\* store.delete(id) / array.filter(r => r.id !== id)
Remove(store, id) == [i \in DOMAIN store \ {id} |-> store[i]]

saveToIndexedDB(store, r) == Put(store, r)
saveAllToIndexedDB(store, recs) == PutAll(store, recs)
clearIndexedDBStore(store) == Empty

\* store.getAll(): the records in ascending key order
getAllFromIndexedDB(store) ==
  LET ids == SortedIds(DOMAIN store) IN [i \in DOMAIN ids |-> store[ids[i]]]

----------------------------------------------------------------------------
(* The remote backend (routine.service): rows keyed by server-issued ids.  *)
(* A call may fail for any reason (network, validation); when it succeeds  *)
(* it has the effect below.                                                *)

\* createRoutine(data): inserts name and isActive, returns the row with slots: []
SrvNewRoutine(id, data) == CleanRoutine(id, data.name, data.isActive, <<>>)

SrvCreateRoutine(srv, id, data) == Put(srv, SrvNewRoutine(id, data))

\* updateRoutine(id, data): updates the row's columns present in data
SrvUpdateRoutine(srv, id, data) ==
  IF id \in DOMAIN srv
  THEN [srv EXCEPT ![id] = Spread(@, Omit(data, DOMAIN data \ {"name", "isActive"}))]
  ELSE srv

SrvDeleteRoutine(srv, id) == Remove(srv, id)

\* activateRoutine(id): clears is_active on every row, then sets it on id
SrvActivate(srv, id) ==
  [i \in DOMAIN srv |-> [srv[i] EXCEPT !.isActive = (i = id)]]

SrvDeactivate(srv, id) ==
  IF id \in DOMAIN srv THEN [srv EXCEPT ![id].isActive = FALSE] ELSE srv

\* addRoutineSlot(routineId, data): returns the new row
SrvNewSlot(id, data) == CleanSlot(id, data.name)

SrvAddSlot(srv, rid, id, data) ==
  IF rid \in DOMAIN srv
  THEN [srv EXCEPT ![rid].slots = Append(@, SrvNewSlot(id, data))]
  ELSE srv

SrvUpdateSlot(srv, rid, sid, data) ==
  IF rid \in DOMAIN srv
  THEN [srv EXCEPT ![rid].slots = SeqPatch(@, sid, Omit(data, DOMAIN data \ {"name"}))]
  ELSE srv

SrvDeleteSlot(srv, rid, sid) ==
  IF rid \in DOMAIN srv
  THEN [srv EXCEPT ![rid].slots = SeqFilterOut(@, sid)]
  ELSE srv

\* bulkImportRoutineSlots(routineId, slots): inserts the rows, returns them
SrvBulkImport(srv, rid, newSlots) ==
  IF rid \in DOMAIN srv
  THEN [srv EXCEPT ![rid].slots = @ \o newSlots]
  ELSE srv

\* a slot can only be inserted under a routine row that exists (foreign key)
SrvCanAddSlot(srv, rid) == rid \in DOMAIN srv

----------------------------------------------------------------------------
(* syncOfflineChanges: the body of the loop over the snapshot.             *)
(*                                                                         *)
(* An accumulator a carries the locals of the pass (syncedRoutines,        *)
(* hasChanges, syncErrors), the backend the remote calls act on, and a     *)
(* record of the calls: calls counts them, ok and failed hold              *)
(* <<kind, routine id, slot id>> of each call by outcome, created maps a   *)
(* temp routine id to the id the backend issued for it.  oc[k] tells       *)
(* whether the k-th remote call of the pass succeeds.                      *)

\* a remote call is issued; tmp: it carries a temp id as an identifier
Issue(a, tmp) == [a EXCEPT !.calls = @ + 1, !.tempSent = @ \/ tmp]

\* the catch blocks: syncErrors++
Caught(a, op) == [a EXCEPT !.syncErrors = @ + 1, !.failed = @ \cup {op}]

\* lines 141-153
SyncDeleteBranch(a, routine, oc) ==
  LET c == Issue(a, IsTempId(routine.id))
      op == <<"delete", routine.id, 0>>
  IN IF oc[c.calls]
     THEN [c EXCEPT !.server = SrvDeleteRoutine(@, routine.id),
                    !.syncedRoutines = Remove(@, routine.id),
                    !.hasChanges = TRUE,
                    !.ok = @ \cup {op}]
     ELSE Caught(c, op)

\* the create branch with line 163 left out: the server's record is pushed
\* and the temp record is not filtered out
SyncCreateBranchKeepTemp(a, routine, oc) ==
  LET c == Issue(a, FALSE)
      op == <<"create", routine.id, 0>>
      routineData == Omit(routine, {"_isOffline", "id"})
      newRoutine == SrvNewRoutine(c.nextRid, routineData)
  IN IF oc[c.calls] /\ c.nextRid <= MaxServerRoutines
     THEN [c EXCEPT !.server = SrvCreateRoutine(@, c.nextRid, routineData),
                    !.nextRid = @ + 1,
                    !.syncedRoutines = Put(@, newRoutine),
                    !.hasChanges = TRUE,
                    !.ok = @ \cup {op},
                    !.created = @ \cup {<<routine.id, newRoutine.id>>}]
     ELSE Caught(c, op)

\* lines 155-172
SyncCreateBranch(a, routine, oc) ==
  LET c == Issue(a, FALSE)
      op == <<"create", routine.id, 0>>
      routineData == Omit(routine, {"_isOffline", "id"})
      newRoutine == SrvNewRoutine(c.nextRid, routineData)
  IN IF oc[c.calls] /\ c.nextRid <= MaxServerRoutines
     THEN [c EXCEPT !.server = SrvCreateRoutine(@, c.nextRid, routineData),
                    !.nextRid = @ + 1,
                    !.syncedRoutines = Put(Remove(@, routine.id), newRoutine),
                    !.hasChanges = TRUE,
                    !.ok = @ \cup {op},
                    !.created = @ \cup {<<routine.id, newRoutine.id>>}]
     ELSE Caught(c, op)

\* lines 174-196
SyncUpdateBranch(a, routine, oc) ==
  LET c == Issue(a, IsTempId(routine.id))
      op == <<"update", routine.id, 0>>
      routineData == Omit(routine, {"_isOfflineUpdated", "_isOffline",
                                    "_needsActivationSync", "_needsDeactivationSync",
                                    "slots"})
  IN IF oc[c.calls]
     THEN LET d == [c EXCEPT !.server = SrvUpdateRoutine(@, routine.id, routineData),
                             !.ok = @ \cup {op}]
          IN IF routine.id \in DOMAIN d.syncedRoutines
             THEN [d EXCEPT !.syncedRoutines[routine.id] =
                              Spread(Spread(@, routineData), [_isOfflineUpdated |-> FALSE]),
                            !.hasChanges = TRUE]
             ELSE d
     ELSE Caught(c, op)

\* lines 199-216
SyncActivateBranch(a, routine, oc) ==
  LET c == Issue(a, IsTempId(routine.id))
      op == <<"activate", routine.id, 0>>
  IN IF oc[c.calls]
     THEN [c EXCEPT !.server = SrvActivate(@, routine.id),
                    !.syncedRoutines =
                       [i \in DOMAIN @ |->
                          Spread(@[i], [isActive |-> (@[i].id = routine.id),
                                        _needsActivationSync |-> FALSE,
                                        _needsDeactivationSync |-> FALSE])],
                    !.hasChanges = TRUE,
                    !.ok = @ \cup {op}]
     ELSE Caught(c, op)

\* lines 217-237
SyncDeactivateBranch(a, routine, oc) ==
  LET c == Issue(a, IsTempId(routine.id))
      op == <<"deactivate", routine.id, 0>>
  IN IF oc[c.calls]
     THEN LET d == [c EXCEPT !.server = SrvDeactivate(@, routine.id),
                             !.ok = @ \cup {op}]
          IN IF routine.id \in DOMAIN d.syncedRoutines
             THEN [d EXCEPT !.syncedRoutines[routine.id] =
                              Spread(@, [isActive |-> FALSE,
                                         _needsDeactivationSync |-> FALSE]),
                            !.hasChanges = TRUE]
             ELSE d
     ELSE Caught(c, op)

\* the slot create branch clearing the flag of the temp slot in place instead
\* of replacing the temp slot by the server's (lines 258-259)
SyncSlotCreateBranchInPlace(a, routine, slot, oc) ==
  LET c == Issue(a, IsTempId(routine.id))
      op == <<"addSlot", routine.id, slot.id>>
      slotData == Omit(slot, {"_isOffline", "id"})
  IN IF oc[c.calls] /\ SrvCanAddSlot(c.server, routine.id) /\ c.nextSid <= MaxServerSlots
     THEN LET d == [c EXCEPT !.server = SrvAddSlot(@, routine.id, c.nextSid, slotData),
                             !.nextSid = @ + 1,
                             !.ok = @ \cup {op}]
          IN IF routine.id \in DOMAIN d.syncedRoutines
             THEN [d EXCEPT !.syncedRoutines[routine.id].slots =
                              SeqPatch(@, slot.id, [_isOffline |-> FALSE]),
                            !.hasChanges = TRUE]
             ELSE d
     ELSE Caught(c, op)

\* lines 246-269
SyncSlotCreateBranch(a, routine, slot, oc) ==
  LET c == Issue(a, IsTempId(routine.id))
      op == <<"addSlot", routine.id, slot.id>>
      slotData == Omit(slot, {"_isOffline", "id"})
      newSlot == SrvNewSlot(c.nextSid, slotData)
  IN IF oc[c.calls] /\ SrvCanAddSlot(c.server, routine.id) /\ c.nextSid <= MaxServerSlots
     THEN LET d == [c EXCEPT !.server = SrvAddSlot(@, routine.id, c.nextSid, slotData),
                             !.nextSid = @ + 1,
                             !.ok = @ \cup {op}]
          IN IF routine.id \in DOMAIN d.syncedRoutines
             THEN [d EXCEPT !.syncedRoutines[routine.id].slots =
                              Append(SeqFilterOut(@, slot.id), newSlot),
                            !.hasChanges = TRUE]
             ELSE d
     ELSE Caught(c, op)

\* lines 271-300
SyncSlotUpdateBranch(a, routine, slot, oc) ==
  LET c == Issue(a, IsTempId(routine.id) \/ IsTempSlotId(slot.id))
      op == <<"updateSlot", routine.id, slot.id>>
      slotData == Omit(slot, {"_isOfflineUpdated", "_isOffline"})
  IN IF oc[c.calls]
     THEN LET d == [c EXCEPT !.server = SrvUpdateSlot(@, routine.id, slot.id, slotData),
                             !.ok = @ \cup {op}]
          IN IF /\ routine.id \in DOMAIN d.syncedRoutines
                /\ slot.id \in SeqIds(d.syncedRoutines[routine.id].slots)
             THEN [d EXCEPT !.syncedRoutines[routine.id].slots =
                              SeqPatch(@, slot.id,
                                       Spread(slotData, [_isOfflineUpdated |-> FALSE])),
                            !.hasChanges = TRUE]
             ELSE d
     ELSE Caught(c, op)

\* lines 302-319
SyncSlotDeleteBranch(a, routine, slot, oc) ==
  LET c == Issue(a, IsTempId(routine.id) \/ IsTempSlotId(slot.id))
      op == <<"deleteSlot", routine.id, slot.id>>
  IN IF oc[c.calls]
     THEN LET d == [c EXCEPT !.server = SrvDeleteSlot(@, routine.id, slot.id),
                             !.ok = @ \cup {op}]
          IN IF routine.id \in DOMAIN d.syncedRoutines
             THEN [d EXCEPT !.syncedRoutines[routine.id].slots = SeqFilterOut(@, slot.id),
                            !.hasChanges = TRUE]
             ELSE d
     ELSE Caught(c, op)

\* lines 244-320: one slot of the snapshot's routine
SyncSlot(a, routine, slot, oc) ==
  IF slot._isOffline THEN SyncSlotCreateBranch(a, routine, slot, oc)
  ELSE IF slot._isOfflineUpdated THEN SyncSlotUpdateBranch(a, routine, slot, oc)
  ELSE IF slot._isOfflineDeleted THEN SyncSlotDeleteBranch(a, routine, slot, oc)
  ELSE a

RECURSIVE SyncSlots(_, _, _, _)
\* lines 239-325: for (const slot of routine.slots)
SyncSlots(a, routine, slots, oc) ==
  IF slots = <<>> THEN a
  ELSE SyncSlots(SyncSlot(a, routine, Head(slots), oc), routine, Tail(slots), oc)

\* lines 129-137: the routine has offline changes
HasOfflineChanges(routine) ==
  \/ routine._isOffline
  \/ routine._isOfflineUpdated
  \/ routine._isOfflineDeleted
  \/ routine._needsActivationSync
  \/ routine._needsDeactivationSync
  \/ \E i \in DOMAIN routine.slots : SlotPending(routine.slots[i])

\* lines 128-326: one iteration of for (const routine of offlineRoutines)
SyncRoutine(a, routine, oc) ==
  IF ~HasOfflineChanges(routine) THEN a
  ELSE IF routine._isOfflineDeleted THEN SyncDeleteBranch(a, routine, oc)
  ELSE IF routine._isOffline THEN SyncCreateBranch(a, routine, oc)
  ELSE LET u == IF routine._isOfflineUpdated THEN SyncUpdateBranch(a, routine, oc) ELSE a
           v == IF routine._needsActivationSync THEN SyncActivateBranch(u, routine, oc)
                ELSE IF routine._needsDeactivationSync
                     THEN SyncDeactivateBranch(u, routine, oc)
                     ELSE u
       IN SyncSlots(v, routine, routine.slots, oc)

RECURSIVE SyncLoop(_, _, _)
SyncLoop(a, offlineRoutines, oc) ==
  IF offlineRoutines = <<>> THEN a
  ELSE SyncLoop(SyncRoutine(a, Head(offlineRoutines), oc), Tail(offlineRoutines), oc)

\* the number of remote calls a pass over the snapshot issues: the branches
\* taken depend on the snapshot's flags alone, not on the calls' outcomes
RoutineCalls(routine) ==
  IF ~HasOfflineChanges(routine) THEN 0
  ELSE IF routine._isOfflineDeleted \/ routine._isOffline THEN 1
  ELSE (IF routine._isOfflineUpdated THEN 1 ELSE 0)
       + (IF routine._needsActivationSync \/ routine._needsDeactivationSync THEN 1 ELSE 0)
       + Cardinality({i \in DOMAIN routine.slots : SlotPending(routine.slots[i])})

RECURSIVE NumCalls(_)
NumCalls(offlineRoutines) ==
  IF offlineRoutines = <<>> THEN 0
  ELSE RoutineCalls(Head(offlineRoutines)) + NumCalls(Tail(offlineRoutines))

----------------------------------------------------------------------------
(* Initial state: the hook has just been constructed.  The backend holds   *)
(* two routines, the first active with one slot; the Local Store and the   *)
(* in-memory state are empty; the platform reports online or offline.      *)

\* the values of the error state: null, and the messages of lines 68 and 350
NoError == "null"
LoadError == "Failed to load routines. Please try again later."
SyncError == "Failed to sync offline changes"
RemoteError == "err.message"

IdlePass ==
  [pc |-> "idle", offlineRoutines |-> <<>>, syncedRoutines |-> Empty,
   hasChanges |-> FALSE, syncErrors |-> 0, calls |-> 0,
   ok |-> {}, failed |-> {}, created |-> {}, result |-> FALSE,
   readFailed |-> FALSE, threw |-> FALSE]

InitServer ==
  Put(Put(Empty, CleanRoutine(1, 0, TRUE, <<CleanSlot(1, 0)>>)),
      CleanRoutine(2, 0, FALSE, <<>>))

InitHook ==
  /\ server = InitServer
  /\ nextRid = 3
  /\ nextSid = 2
  /\ db = Empty
  /\ routines = Empty
  /\ isOffline \in BOOLEAN
  /\ loadPending = isOffline
  /\ syncInProgress = FALSE
  /\ renderedSync = FALSE
  /\ nextTemp = 0
  /\ nextTempSlot = 0
  /\ pass = [p \in Passes |-> IdlePass]
  /\ tempSent = FALSE
  /\ ops = 0
  /\ error = NoError

\* a call of activateRoutine that has not been made
NoCall == [pc |-> "idle", routineId |-> 0, existingRoutines |-> Empty]

\* no activateRoutine call is in flight
NoActivations == activations = [c \in Calls |-> NoCall]

\* the worker's syncData has not been asked for
NoSync ==
  /\ collection = Empty
  /\ syncPc = "idle"
  /\ itemsToSync = Empty
  /\ syncResult = Empty

\* an applyUpdate call that has not been made
NoUpdate == [pc |-> "idle", exit |-> "", value |-> FALSE]

\* serviceWorkerUtils line 8, and no applyUpdate call made
NoUpdates ==
  /\ updateInProgress = FALSE
  /\ applyCalls = [u \in Updates |-> NoUpdate]
  /\ swSupported = TRUE
  /\ registration = "active"

\* initOfflineStorage has not run
NoStorageInit ==
  /\ estimate = [supported |-> FALSE, quota |-> 0, usage |-> 0]
  /\ storeData = [s \in {} |-> {}]
  /\ storagePc = "idle"
  /\ toClear = <<>>
  /\ clearCalls = 0
  /\ clearedStores = {}

\* the page has started nothing outside the hook's handlers
InitPage ==
  /\ NoActivations
  /\ NoSync
  /\ NoUpdates
  /\ NoStorageInit

\* the hook's steps leave the database schema and the service worker alone
HookOnly == UNCHANGED <<dbVars, swVars, msgVars, pageVars>>

\* no syncOfflineChanges call is between its first and its last step
Quiet == \A p \in Passes : pass[p].pc = "idle"

----------------------------------------------------------------------------
(* Connectivity and rendering *)

\* useOfflineStatus: the platform's offline event; the load effect re-runs
GoOffline ==
  /\ ~isOffline
  /\ isOffline' = TRUE
  /\ loadPending' = TRUE
  /\ UNCHANGED <<server, nextRid, nextSid, db, routines, syncInProgress,
                 renderedSync, nextTemp, nextTempSlot, pass, tempSent, ops, error>>

\* useOfflineStatus: the platform's online event; the load effect re-runs
GoOnline ==
  /\ isOffline
  /\ isOffline' = FALSE
  /\ loadPending' = FALSE
  /\ UNCHANGED <<server, nextRid, nextSid, db, routines, syncInProgress,
                 renderedSync, nextTemp, nextTempSlot, pass, tempSent, ops, error>>

\* the component re-renders: new closures capture the current state
Render ==
  /\ renderedSync # syncInProgress
  /\ renderedSync' = syncInProgress
  /\ UNCHANGED <<server, nextRid, nextSid, db, routines, isOffline, loadPending,
                 syncInProgress, nextTemp, nextTempSlot, pass, tempSent, ops, error>>

----------------------------------------------------------------------------
(* loadRoutines, lines 35-86.  Offline it runs when the effect of lines    *)
(* 88-112 schedules it (mount, connectivity change).  Online it runs then  *)
(* and on every change notification of the backend, that is at any time:   *)
(* loadPending is only kept while offline.                                 *)

\* lines 44-47
ProcessOffline(routine) ==
  Spread(routine,
         [slots |-> SelectSeq(routine.slots, LAMBDA slot : ~slot._isOfflineDeleted)])

LoadRoutinesOffline ==
  /\ isOffline
  /\ loadPending
  /\ routines' = [i \in DOMAIN db |-> ProcessOffline(db[i])]
  /\ UNCHANGED <<db, error>>

LoadRoutinesOnline ==
  /\ ~isOffline
  /\ \/ \* fetchRoutines succeeds: lines 52-64
        /\ routines' = server
        /\ db' = saveAllToIndexedDB(db, server)
        /\ UNCHANGED error
     \/ \* fetchRoutines fails: setError and the fallback of lines 66-82
        /\ routines' = IF getAllFromIndexedDB(db) # <<>> THEN db ELSE routines
        /\ error' = LoadError
        /\ UNCHANGED db

LoadRoutines ==
  /\ LoadRoutinesOffline \/ LoadRoutinesOnline
  /\ loadPending' = FALSE
  /\ UNCHANGED <<server, nextRid, nextSid, isOffline, syncInProgress,
                 renderedSync, nextTemp, nextTempSlot, pass, tempSent, ops>>

----------------------------------------------------------------------------
(* The mutations of the hook.  The caller names a routine (and a slot) it  *)
(* sees in the in-memory state.  Each handler is one action: its reads of  *)
(* the Local Store, its remote call and its writes.                        *)

\* "temp-..." and "temp-slot-..." ids, lines 363 and 505
TempRoutineId == TempBase + nextTemp + 1
TempSlotId == TempBase + nextTempSlot + 1

\* lines 357-389
CreateRoutine ==
  /\ ops < MaxOps
  /\ ops' = ops + 1
  /\ \E name \in Names :
         LET routine == Omit(CleanRoutine(0, name, FALSE, <<>>), {"id"}) IN
         /\ IF isOffline
            THEN LET offlineRoutine ==
                       Spread(routine, [id |-> TempRoutineId, slots |-> <<>>,
                                        _isOffline |-> TRUE])
                 IN /\ nextTemp < MaxTempRoutines
                    /\ db' = saveToIndexedDB(db, offlineRoutine)
                    /\ routines' = Put(routines, offlineRoutine)
                    /\ nextTemp' = nextTemp + 1
                    /\ UNCHANGED <<server, nextRid>>
            ELSE LET newRoutine == SrvNewRoutine(nextRid, routine)
                 IN /\ nextRid <= MaxServerRoutines
                    /\ server' = SrvCreateRoutine(server, nextRid, routine)
                    /\ nextRid' = nextRid + 1
                    /\ routines' = Put(routines, newRoutine)
                    /\ db' = saveToIndexedDB(db, newRoutine)
                    /\ UNCHANGED nextTemp
         /\ UNCHANGED <<nextSid, isOffline, loadPending, syncInProgress, renderedSync,
                        nextTempSlot, pass, tempSent>>
         /\ error' = NoError

\* lines 391-440
UpdateRoutine ==
  /\ ops < MaxOps
  /\ ops' = ops + 1
  /\ \E id \in DOMAIN routines, name \in Names :
         LET updates == [name |-> name] IN
         /\ IF isOffline
            THEN /\ IF id \in DOMAIN db
                    THEN /\ db' = saveToIndexedDB(db, Spread(Spread(db[id], updates),
                                                             [_isOfflineUpdated |-> TRUE]))
                         /\ routines' = [routines EXCEPT ![id] = Spread(@, updates)]
                    ELSE \* line 413: 'Routine not found in offline storage'
                         UNCHANGED <<db, routines>>
                 /\ UNCHANGED <<server, tempSent>>
            ELSE /\ server' = SrvUpdateRoutine(server, id, updates)
                 /\ tempSent' = (tempSent \/ IsTempId(id))
                 /\ routines' = [routines EXCEPT ![id] = Spread(@, updates)]
                 /\ db' = IF id \in DOMAIN db
                          THEN saveToIndexedDB(db, Spread(db[id], updates))
                          ELSE db
         /\ UNCHANGED <<nextRid, nextSid, isOffline, loadPending, syncInProgress,
                        renderedSync, nextTemp, nextTempSlot, pass>>
         /\ error' = IF isOffline /\ id \notin DOMAIN db THEN RemoteError ELSE NoError

\* lines 442-497
DeleteRoutine ==
  /\ ops < MaxOps
  /\ ops' = ops + 1
  /\ \E id \in DOMAIN routines :
         /\ IF isOffline
            THEN /\ db' = IF id \in DOMAIN db
                          THEN saveToIndexedDB(db, Spread(db[id], [_isOfflineDeleted |-> TRUE]))
                          ELSE db
                 /\ routines' = Remove(routines, id)
                 /\ UNCHANGED <<server, tempSent>>
            ELSE LET filteredRoutines == Remove(db, id)
                     cleared == clearIndexedDBStore(db)
                 IN /\ server' = SrvDeleteRoutine(server, id)
                    /\ tempSent' = (tempSent \/ IsTempId(id))
                    /\ routines' = Remove(routines, id)
                    /\ db' = IF DOMAIN filteredRoutines # {}
                             THEN saveAllToIndexedDB(cleared, filteredRoutines)
                             ELSE cleared
         /\ UNCHANGED <<nextRid, nextSid, isOffline, loadPending, syncInProgress,
                        renderedSync, nextTemp, nextTempSlot, pass>>
         /\ error' = NoError

\* lines 499-561
AddRoutineSlot ==
  /\ ops < MaxOps
  /\ ops' = ops + 1
  /\ \E routineId \in DOMAIN routines, name \in Names :
         LET slotData == Omit(CleanSlot(0, name), {"id"})
             routine == routines[routineId]
         IN
         /\ IF isOffline
            THEN LET newSlot == Spread(slotData, [id |-> TempSlotId, _isOffline |-> TRUE])
                     updatedRoutine == Spread(routine, [slots |-> Append(routine.slots, newSlot)])
                 IN /\ nextTempSlot < MaxTempSlots
                    /\ db' = saveToIndexedDB(db, updatedRoutine)
                    /\ routines' = [routines EXCEPT ![routineId] = updatedRoutine]
                    /\ nextTempSlot' = nextTempSlot + 1
                    /\ UNCHANGED <<server, nextSid, tempSent>>
            ELSE LET newSlot == SrvNewSlot(nextSid, slotData)
                     updatedRoutine == Spread(routine, [slots |-> Append(routine.slots, newSlot)])
                 IN /\ nextSid <= MaxServerSlots
                    /\ tempSent' = (tempSent \/ IsTempId(routineId))
                    /\ IF SrvCanAddSlot(server, routineId)
                       THEN /\ server' = SrvAddSlot(server, routineId, nextSid, slotData)
                            /\ nextSid' = nextSid + 1
                            /\ routines' = [routines EXCEPT ![routineId] = updatedRoutine]
                            /\ db' = saveToIndexedDB(db, updatedRoutine)
                       ELSE \* the call is rejected and the error rethrown
                            UNCHANGED <<server, nextSid, routines, db>>
                    /\ UNCHANGED nextTempSlot
         /\ UNCHANGED <<nextRid, isOffline, loadPending, syncInProgress, renderedSync,
                        nextTemp, pass>>
         /\ error' = IF ~isOffline /\ ~SrvCanAddSlot(server, routineId)
                     THEN RemoteError ELSE NoError

\* lines 563-646
UpdateRoutineSlot ==
  /\ ops < MaxOps
  /\ ops' = ops + 1
  /\ \E routineId \in DOMAIN routines, name \in Names :
         \E slotId \in SeqIds(routines[routineId].slots) :
           LET updates == [name |-> name] IN
           /\ IF isOffline
              THEN /\ IF routineId \in DOMAIN db
                      THEN /\ db' = saveToIndexedDB(db,
                                       Spread(db[routineId],
                                              [slots |-> SeqPatch(db[routineId].slots, slotId,
                                                                  Spread(updates,
                                                                         [_isOfflineUpdated |-> TRUE]))]))
                           /\ routines' = [routines EXCEPT ![routineId].slots = SeqPatch(@, slotId, updates)]
                      ELSE \* line 574: 'Routine or slots not found'
                           UNCHANGED <<db, routines>>
                   /\ UNCHANGED <<server, tempSent>>
              ELSE /\ server' = SrvUpdateSlot(server, routineId, slotId, updates)
                   /\ tempSent' = (tempSent \/ IsTempId(routineId) \/ IsTempSlotId(slotId))
                   /\ routines' = [routines EXCEPT ![routineId].slots = SeqPatch(@, slotId, updates)]
                   /\ db' = IF routineId \in DOMAIN db
                            THEN saveToIndexedDB(db,
                                   Spread(db[routineId],
                                          [slots |-> SeqPatch(db[routineId].slots, slotId, updates)]))
                            ELSE db
           /\ UNCHANGED <<nextRid, nextSid, isOffline, loadPending, syncInProgress,
                          renderedSync, nextTemp, nextTempSlot, pass>>
           /\ error' = IF isOffline /\ routineId \notin DOMAIN db
                       THEN RemoteError ELSE NoError

\* lines 648-721
DeleteRoutineSlot ==
  /\ ops < MaxOps
  /\ ops' = ops + 1
  /\ \E routineId \in DOMAIN routines :
         \E slotId \in SeqIds(routines[routineId].slots) :
           /\ IF isOffline
              THEN LET routine == db[routineId]
                       isOfflineSlot == IsTempSlotId(slotId)
                       updatedSlots ==
                         IF isOfflineSlot
                         THEN SeqFilterOut(routine.slots, slotId)
                         ELSE SeqPatch(routine.slots, slotId, [_isOfflineDeleted |-> TRUE])
                   IN /\ IF routineId \in DOMAIN db
                         THEN /\ db' = saveToIndexedDB(db, Spread(routine, [slots |-> updatedSlots]))
                              /\ routines' = [routines EXCEPT ![routineId].slots = SeqFilterOut(@, slotId)]
                         ELSE \* line 658: 'Routine or slots not found'
                              UNCHANGED <<db, routines>>
                      /\ UNCHANGED <<server, tempSent>>
              ELSE /\ server' = SrvDeleteSlot(server, routineId, slotId)
                   /\ tempSent' = (tempSent \/ IsTempId(routineId) \/ IsTempSlotId(slotId))
                   /\ routines' = [routines EXCEPT ![routineId].slots = SeqFilterOut(@, slotId)]
                   /\ db' = IF routineId \in DOMAIN db
                            THEN saveToIndexedDB(db,
                                   Spread(db[routineId],
                                          [slots |-> SeqFilterOut(db[routineId].slots, slotId)]))
                            ELSE db
           /\ UNCHANGED <<nextRid, nextSid, isOffline, loadPending, syncInProgress,
                          renderedSync, nextTemp, nextTempSlot, pass>>
           /\ error' = IF isOffline /\ routineId \notin DOMAIN db
                       THEN RemoteError ELSE NoError

\* lines 742-747 and 752-756: the offline activation of routineId
MarkActivated(store, routineId) ==
  [i \in DOMAIN store |->
     Spread(store[i], [isActive |-> (store[i].id = routineId),
                       _needsActivationSync |-> (store[i].id = routineId)])]

\* an activation that leaves the other routines as they are
SetActiveOnly(store, routineId) ==
  [i \in DOMAIN store |->
     Spread(store[i], [isActive |-> (store[i].isActive \/ store[i].id = routineId)])]

\* lines 764-769 and 773-776
SetActive(store, routineId) ==
  [i \in DOMAIN store |-> Spread(store[i], [isActive |-> (store[i].id = routineId)])]

\* lines 791-796 and 801-805: the offline deactivation of routineId
MarkDeactivated(store, routineId) ==
  [i \in DOMAIN store |->
     Spread(store[i],
            [isActive |-> IF store[i].id = routineId THEN FALSE ELSE store[i].isActive,
             _needsDeactivationSync |-> (store[i].id = routineId)])]

\* lines 813-818 and 822-825
SetInactive(store, routineId) ==
  [i \in DOMAIN store |->
     Spread(store[i],
            [isActive |-> IF store[i].id = routineId THEN FALSE ELSE store[i].isActive])]

\* lines 736-784, called with routineId
ActivateRoutineOf(routineId) ==
  /\ IF isOffline
     THEN /\ routines' = MarkActivated(routines, routineId)
          /\ db' = saveAllToIndexedDB(db, MarkActivated(db, routineId))
          /\ UNCHANGED <<server, tempSent>>
     ELSE /\ server' = SrvActivate(server, routineId)
          /\ tempSent' = (tempSent \/ IsTempId(routineId))
          /\ routines' = SetActive(routines, routineId)
          /\ db' = saveAllToIndexedDB(db, SetActive(db, routineId))
  /\ UNCHANGED <<nextRid, nextSid, isOffline, loadPending, syncInProgress,
                 renderedSync, nextTemp, nextTempSlot, pass>>
  /\ error' = NoError

\* lines 736-784
ActivateRoutine ==
  /\ ops < MaxOps
  /\ ops' = ops + 1
  /\ \E routineId \in DOMAIN routines : ActivateRoutineOf(routineId)

\* lines 785-833
DeactivateRoutine ==
  /\ ops < MaxOps
  /\ ops' = ops + 1
  /\ \E routineId \in DOMAIN routines :
         /\ IF isOffline
            THEN /\ routines' = MarkDeactivated(routines, routineId)
                 /\ db' = saveAllToIndexedDB(db, MarkDeactivated(db, routineId))
                 /\ UNCHANGED <<server, tempSent>>
            ELSE /\ server' = SrvDeactivate(server, routineId)
                 /\ tempSent' = (tempSent \/ IsTempId(routineId))
                 /\ routines' = SetInactive(routines, routineId)
                 /\ db' = saveAllToIndexedDB(db, SetInactive(db, routineId))
         /\ UNCHANGED <<nextRid, nextSid, isOffline, loadPending, syncInProgress,
                        renderedSync, nextTemp, nextTempSlot, pass>>
         /\ error' = NoError

\* lines 834-895; the caller imports n slots at once
BulkImportRoutineSlots ==
  /\ ops < MaxOps
  /\ ops' = ops + 1
  /\ \E routineId \in DOMAIN routines, name \in Names :
         LET slotData == Omit(CleanSlot(0, name), {"id"})
             routine == routines[routineId]
         IN
         /\ IF isOffline
            THEN \E n \in 1..(MaxTempSlots - nextTempSlot) :
                 LET newSlots == [k \in 1..n |->
                                    Spread(slotData, [id |-> TempSlotId + k - 1,
                                                      _isOffline |-> TRUE])]
                     updatedRoutine == Spread(routine, [slots |-> routine.slots \o newSlots])
                 IN /\ db' = saveToIndexedDB(db, updatedRoutine)
                    /\ routines' = [routines EXCEPT ![routineId] = updatedRoutine]
                    /\ nextTempSlot' = nextTempSlot + n
                    /\ UNCHANGED <<server, nextSid, tempSent>>
            ELSE \E n \in 1..(MaxServerSlots + 1 - nextSid) :
                 LET newSlots == [k \in 1..n |-> SrvNewSlot(nextSid + k - 1, slotData)]
                     updatedRoutine == Spread(routine, [slots |-> routine.slots \o newSlots])
                 IN /\ tempSent' = (tempSent \/ IsTempId(routineId))
                    /\ IF SrvCanAddSlot(server, routineId)
                       THEN /\ server' = SrvBulkImport(server, routineId, newSlots)
                            /\ nextSid' = nextSid + n
                            /\ routines' = [routines EXCEPT ![routineId] = updatedRoutine]
                            /\ db' = saveToIndexedDB(db, updatedRoutine)
                       ELSE \* the call is rejected and the error rethrown
                            UNCHANGED <<server, nextSid, routines, db>>
                    /\ UNCHANGED nextTempSlot
         /\ UNCHANGED <<nextRid, isOffline, loadPending, syncInProgress, renderedSync,
                        nextTemp, pass>>
         /\ error' = IF ~isOffline /\ ~SrvCanAddSlot(server, routineId)
                     THEN RemoteError ELSE NoError

----------------------------------------------------------------------------
(* syncOfflineChanges, lines 115-355, in the steps its awaits allow:       *)
(* the guard and the snapshot, the loop with its remote calls, the clear   *)
(* and the save of the commit.  A finished pass keeps its locals in        *)
(* pc = "done" until SyncFinally forgets them.                             *)

InFlight(p) == pass[p].pc \in {"loop", "clear", "save"}

\* line 116: the guard reads the closure's isOffline and syncInProgress
SyncGuard == ~(isOffline \/ renderedSync)

\* lines 116-125
SyncStart(p) ==
  /\ pass[p].pc = "idle"
  /\ SyncGuard
  /\ syncInProgress' = TRUE
  /\ pass' = [pass EXCEPT ![p] =
                [IdlePass EXCEPT !.pc = "loop",
                                 !.offlineRoutines = getAllFromIndexedDB(db),
                                 !.syncedRoutines = db]]
  /\ UNCHANGED <<server, nextRid, nextSid, db, routines, isOffline, loadPending,
                 renderedSync, nextTemp, nextTempSlot, tempSent, ops, error>>

\* lines 328 and 338-347: what follows the loop
AfterLoop(a) ==
  IF a.hasChanges THEN "clear" ELSE "done"

\* lines 127-326
SyncProcess(p) ==
  /\ pass[p].pc = "loop"
  /\ \E oc \in [1..NumCalls(pass[p].offlineRoutines) -> BOOLEAN] :
       LET a0 == [syncedRoutines |-> pass[p].syncedRoutines,
                  hasChanges |-> FALSE, syncErrors |-> 0, calls |-> 0,
                  ok |-> {}, failed |-> {}, created |-> {},
                  server |-> server, nextRid |-> nextRid, nextSid |-> nextSid,
                  tempSent |-> tempSent]
           a == SyncLoop(a0, pass[p].offlineRoutines, oc)
       IN /\ server' = a.server
          /\ nextRid' = a.nextRid
          /\ nextSid' = a.nextSid
          /\ tempSent' = a.tempSent
          /\ pass' = [pass EXCEPT ![p] =
                        [@ EXCEPT !.pc = AfterLoop(a),
                                  !.syncedRoutines = a.syncedRoutines,
                                  !.hasChanges = a.hasChanges,
                                  !.syncErrors = a.syncErrors,
                                  !.calls = a.calls,
                                  !.ok = a.ok,
                                  !.failed = a.failed,
                                  !.created = a.created,
                                  !.result = (a.syncErrors = 0)]]
  /\ UNCHANGED <<db, routines, isOffline, loadPending, syncInProgress,
                 renderedSync, nextTemp, nextTempSlot, ops, error>>

\* line 331
SyncClear(p) ==
  /\ pass[p].pc = "clear"
  /\ db' = clearIndexedDBStore(db)
  /\ pass' = [pass EXCEPT ![p].pc = "save"]
  /\ UNCHANGED <<server, nextRid, nextSid, routines, isOffline, loadPending,
                 syncInProgress, renderedSync, nextTemp, nextTempSlot, tempSent, ops, error>>

\* lines 332-335
SyncSave(p) ==
  /\ pass[p].pc = "save"
  /\ db' = saveAllToIndexedDB(db, pass[p].syncedRoutines)
  /\ routines' = pass[p].syncedRoutines
  /\ pass' = [pass EXCEPT ![p].pc = "done"]
  /\ UNCHANGED <<server, nextRid, nextSid, isOffline, loadPending,
                 syncInProgress, renderedSync, nextTemp, nextTempSlot, tempSent, ops, error>>

\* lines 347 and 352-354: return syncErrors === 0; finally setSyncInProgress(false)
SyncFinally(p) ==
  /\ pass[p].pc = "done"
  /\ syncInProgress' = FALSE
  /\ pass' = [pass EXCEPT ![p] = IdlePass]
  /\ UNCHANGED <<server, nextRid, nextSid, db, routines, isOffline, loadPending,
                 renderedSync, nextTemp, nextTempSlot, tempSent, ops, error>>

----------------------------------------------------------------------------
(* The same handlers when a remote call or a Local Store request fails.    *)

\* an online handler whose remote call rejects: the call is the first await of
\* the online branch, the catch block sets the error and rethrows
RemoteCallFails(tmp) ==
  /\ ~isOffline
  /\ ops < MaxOps
  /\ ops' = ops + 1
  /\ tempSent' = (tempSent \/ tmp)
  /\ error' = RemoteError
  /\ UNCHANGED <<server, nextRid, nextSid, db, routines, isOffline, loadPending,
                 syncInProgress, renderedSync, nextTemp, nextTempSlot, pass>>

\* lines 375-388
CreateRoutineFails == RemoteCallFails(FALSE)

\* updateRoutine as it would be with the in-memory update of lines 418-422
\* made before the remote call of line 416
UpdateRoutineFailsOptimistic ==
  \E id \in DOMAIN routines, name \in Names :
    /\ ~isOffline
    /\ ops < MaxOps
    /\ ops' = ops + 1
    /\ tempSent' = (tempSent \/ IsTempId(id))
    /\ routines' = [routines EXCEPT ![id] = Spread(@, [name |-> name])]
    /\ error' = RemoteError
    /\ UNCHANGED <<server, nextRid, nextSid, db, isOffline, loadPending,
                   syncInProgress, renderedSync, nextTemp, nextTempSlot, pass>>

\* lines 414-439
UpdateRoutineFails == \E id \in DOMAIN routines : RemoteCallFails(IsTempId(id))

\* lines 460-462 and 493-496
DeleteRoutineFails == \E id \in DOMAIN routines : RemoteCallFails(IsTempId(id))

\* lines 534-536 and 557-560
AddRoutineSlotFails == \E routineId \in DOMAIN routines : RemoteCallFails(IsTempId(routineId))

\* lines 606-608 and 642-645
UpdateRoutineSlotFails ==
  \E routineId \in DOMAIN routines :
    \E slotId \in SeqIds(routines[routineId].slots) :
      RemoteCallFails(IsTempId(routineId) \/ IsTempSlotId(slotId))

\* lines 692-694 and 717-720
DeleteRoutineSlotFails ==
  \E routineId \in DOMAIN routines :
    \E slotId \in SeqIds(routines[routineId].slots) :
      RemoteCallFails(IsTempId(routineId) \/ IsTempSlotId(slotId))

\* lines 759-761 and 780-783
ActivateRoutineFails == \E routineId \in DOMAIN routines : RemoteCallFails(IsTempId(routineId))

\* lines 808-810 and 829-832
DeactivateRoutineFails == \E routineId \in DOMAIN routines : RemoteCallFails(IsTempId(routineId))

\* lines 442-497 online, when the cleanup of the Local Store fails: the remote
\* delete and the in-memory removal are done, clearIndexedDBStore or the
\* saveToIndexedDB after it rejects, the inner catch returns false
DeleteRoutineCleanupFails ==
  /\ ~isOffline
  /\ ops < MaxOps
  /\ ops' = ops + 1
  /\ \E id \in DOMAIN routines :
         LET filteredRoutines == Remove(db, id)
         IN /\ server' = SrvDeleteRoutine(server, id)
            /\ tempSent' = (tempSent \/ IsTempId(id))
            /\ routines' = Remove(routines, id)
            /\ \/ \* line 476 rejects
                  db' = db
               \/ \* line 480 rejects: its transaction stores nothing
                  /\ DOMAIN filteredRoutines # {}
                  /\ db' = clearIndexedDBStore(db)
  /\ error' = NoError
  /\ UNCHANGED <<nextRid, nextSid, isOffline, loadPending, syncInProgress,
                 renderedSync, nextTemp, nextTempSlot, pass>>

\* lines 348-351: the catch block of syncOfflineChanges
SyncCatch(p) ==
  /\ error' = SyncError
  /\ pass' = [pass EXCEPT ![p].pc = "done", ![p].result = FALSE, ![p].threw = TRUE]

\* lines 116-125 when the Local Store cannot be read: openDatabase rejects and
\* getAllFromIndexedDB returns [] (offlineStorage 243-249), or the getAll
\* request fails and the promise rejects (offlineStorage 233-241)
SyncStartStoreFails(p) ==
  /\ pass[p].pc = "idle"
  /\ SyncGuard
  /\ syncInProgress' = TRUE
  /\ \/ /\ pass' = [pass EXCEPT ![p] = [IdlePass EXCEPT !.pc = "loop",
                                                          !.readFailed = TRUE]]
        /\ UNCHANGED error
     \/ /\ error' = SyncError
        /\ pass' = [pass EXCEPT ![p] = [IdlePass EXCEPT !.pc = "done",
                                                          !.readFailed = TRUE,
                                                          !.threw = TRUE]]
  /\ UNCHANGED <<server, nextRid, nextSid, db, routines, isOffline, loadPending,
                 renderedSync, nextTemp, nextTempSlot, tempSent, ops>>

\* line 331 rejects: the store is left as it was
SyncClearFails(p) ==
  /\ pass[p].pc = "clear"
  /\ SyncCatch(p)
  /\ UNCHANGED <<server, nextRid, nextSid, db, routines, isOffline, loadPending,
                 syncInProgress, renderedSync, nextTemp, nextTempSlot, tempSent, ops>>

\* line 332 rejects: its transaction stores nothing, line 335 is not reached
SyncSaveFails(p) ==
  /\ pass[p].pc = "save"
  /\ SyncCatch(p)
  /\ UNCHANGED <<server, nextRid, nextSid, db, routines, isOffline, loadPending,
                 syncInProgress, renderedSync, nextTemp, nextTempSlot, tempSent, ops>>

----------------------------------------------------------------------------
(* openDatabase, offlineStorage.ts lines 56-111: the schema of the         *)
(* database.  A store is shown by the keys of its records.                 *)

DB_VERSION == 3

STORES == {"tasks", "routines", "userData", "courses", "materials", "teachers"}

StoreKeys == 1..MaxStoreKey

\* db.createObjectStore(name, { keyPath: 'id' }) behind its contains test
createObjectStore(stores, name) ==
  IF name \in DOMAIN stores
  THEN stores
  ELSE [s \in DOMAIN stores \cup {name} |-> IF s = name THEN {} ELSE stores[s]]

\* an upgrade that deletes every store and creates the six anew
onupgradeneededRecreate(stores, oldVersion) ==
  IF oldVersion < 3
  THEN [s \in STORES |-> {}]
  ELSE stores

\* lines 71-110: onupgradeneeded
onupgradeneeded(stores, oldVersion) ==
  LET v1 == IF oldVersion < 1
            THEN createObjectStore(createObjectStore(createObjectStore(stores,
                   "tasks"), "routines"), "userData")
            ELSE stores
      v2 == IF oldVersion < 2
            THEN createObjectStore(createObjectStore(v1, "courses"), "materials")
            ELSE v1
      v3 == IF oldVersion < 3
            THEN createObjectStore(v2, "teachers")
            ELSE v2
  IN v3

\* the stores the releases up to version v have created
StoresAt(v) ==
  DOMAIN onupgradeneeded(<<>>, 0) \ DOMAIN onupgradeneeded(<<>>, v)

\* the databases an earlier release can have left on disk
PersistedDatabases ==
  UNION {[version : {v}, stores : [StoresAt(v) -> SUBSET StoreKeys]] :
           v \in 0..DB_VERSION}

\* lines 56-111: indexedDB.open(DB_NAME, DB_VERSION); the upgrade runs when
\* the version on disk is lower
OpenDatabase ==
  /\ idb.version <= DB_VERSION
  /\ IF idb.version < DB_VERSION
     THEN /\ idb' = [version |-> DB_VERSION,
                     stores |-> onupgradeneeded(idb.stores, idb.version)]
          /\ idbOldVersion' = idb.version
     ELSE UNCHANGED <<idb, idbOldVersion>>

----------------------------------------------------------------------------
(* The service worker, src/unnamed/part_001.  A URL is its protocol, the   *)
(* labels of its host name, the directories of its path, and the name and  *)
(* the extension of its last segment; it has no query string.              *)

CACHE_NAME == "nesttask-v5"

Url(protocol, host, dirs, file, ext) ==
  [protocol |-> protocol, host |-> host, dirs |-> dirs, file |-> file, ext |-> ext]

AppHost == <<"nesttask", "app">>

\* line 2
OFFLINE_URL == Url("https:", AppHost, <<>>, "offline", "html")

\* lines 5-16, those of the URLs below
STATIC_ASSETS ==
  {Url("https:", AppHost, <<>>, "", ""),
   OFFLINE_URL,
   Url("https:", AppHost, <<"icons">>, "badge", "png")}

\* the URLs the page asks for
Urls ==
  STATIC_ASSETS \cup
  {Url("https:", AppHost, <<"assets">>, "app", "js"),
   Url("https:", AppHost, <<"api">>, "tasks", ""),
   Url("https:", AppHost, <<"api">>, "client", "js"),
   Url("https:", AppHost, <<"auth">>, "callback", ""),
   Url("https:", <<"db", "supabase", "co">>, <<"rest", "v1">>, "routines", ""),
   Url("https:", <<"fonts", "gstatic", "com">>, <<"s">>, "font", "woff2"),
   Url("chrome-extension:", <<"abcdef">>, <<>>, "content", "js")}

Requests ==
  [method : {"GET", "POST"}, url : Urls, mode : {"navigate", "cors"},
   destination : {"document", "script", "style", ""}]

NoRequest == [method |-> "", url |-> OFFLINE_URL, mode |-> "", destination |-> ""]

\* the segment seg, followed by a slash, is in the path of url
HasDir(url, seg) == \E i \in DOMAIN url.dirs : url.dirs[i] = seg

\* hostname.includes('supabase.co'), line 153
IncludesSupabase(host) ==
  \E i \in 1..(Len(host) - 1) : host[i] = "supabase" /\ host[i + 1] = "co"

\* lines 19-25
MatchesRuntimePattern(url) ==
  \/ url.ext \in {"js", "css"}
  \/ HasDir(url, "assets") /\ url.ext \in {"js", "css", "woff2", "png", "jpg", "svg"}
  \/ HasDir(url, "icons") /\ url.ext = "png"
  \/ url.protocol = "https:" /\ url.host = <<"fonts", "googleapis", "com">>
  \/ url.protocol = "https:" /\ url.host = <<"fonts", "gstatic", "com">>

\* lines 106-131
shouldCacheAtRuntime(url) ==
  IF url.protocol \notin {"http:", "https:"}
  THEN FALSE
  ELSE IF IncludesSupabase(url.host) \/ HasDir(url, "auth") \/ HasDir(url, "api")
       THEN FALSE
       ELSE MatchesRuntimePattern(url)

\* the body of a response: the resource it is a copy of and the fetch event
\* during which the network produced it (0 for the install event)
Body(url, at) == [url |-> url, at |-> at]
NoBody == Body(Url("", <<>>, <<>>, "", ""), -1)

\* a response of the network, also the form of a stored response
Response(status, url, at) == [status |-> status, body |-> Body(url, at)]

\* what the page gets: the browser's own fetch when the worker does not
\* intercept, a network response, a stored response, a response the worker
\* makes up, or nothing (respondWith resolved with undefined or null)
NotIntercepted == [kind |-> "browser", status |-> 0, body |-> NoBody]
FromNetwork(response) ==
  [kind |-> "network", status |-> response.status, body |-> response.body]
FromCache(entry) == [kind |-> "cache", status |-> entry.status, body |-> entry.body]
Synthesized(status) == [kind |-> "synthesized", status |-> status, body |-> NoBody]
NoResponse == [kind |-> "undefined", status |-> 0, body |-> NoBody]

\* how the network answers a fetch: with an OK status, with an error status,
\* not at all, or with an OK status after more than 3 s
NetOutcomes == {"ok", "notOk", "fail", "slow"}

NetStatus(net) == IF net = "notOk" THEN 500 ELSE 200

\* response.ok
IsOk(response) == response.status \in 200..299

\* caches.match(request): the first stored response for the URL in any cache
Matched(cs, url) == {name \in DOMAIN cs : url \in DOMAIN cs[name]}

\* (the platform searches the caches in creation order; the properties below
\* do not depend on which of several matching caches answers)
cachesMatch(cs, url) ==
  LET name == CHOOSE n \in Matched(cs, url) : TRUE
  IN cs[name][url]

\* caches.open(name).then(cache => cache.put(request, response))
cachePut(cs, name, url, entry) ==
  LET old == IF name \in DOMAIN cs THEN cs[name] ELSE <<>>
      new == [u \in DOMAIN old \cup {url} |-> IF u = url THEN entry ELSE old[u]]
  IN [n \in DOMAIN cs \cup {name} |-> IF n = name THEN new ELSE cs[n]]

Handled(cs, response) == [caches |-> cs, response |-> response]

\* respondWith got a promise that rejects: the page sees a network error
Rejected == [kind |-> "rejected", status |-> 0, body |-> NoBody]

\* how a call of the Cache API ends
CacheOutcomes == {"works", "rejects"}

\* work a fetch handler leaves running when its response is delivered: a
\* cache.put of a response it already has, a fetch whose response is put if
\* it is OK, or a fetch nobody waits for any more; name is the CACHE_NAME of
\* the worker that runs it
PutTask(name, url, response) ==
  [op |-> "put", name |-> name, url |-> url, response |-> response]
RefreshTask(name, url) ==
  [op |-> "refresh", name |-> name, url |-> url, response |-> Response(0, url, -1)]
LateTask(name, url) ==
  [op |-> "late", name |-> name, url |-> url, response |-> Response(0, url, -1)]

\* what a strategy does up to the delivery of its response
Answered(response, tasks) == [response |-> response, tasks |-> tasks]

\* lines 157-193: navigation, network first; response is what the network
\* answered when net is not "fail", lookup is how caches.match ends
HandleNavigation(cs, name, url, net, response, lookup) ==
  IF net # "fail" /\ IsOk(response)
  THEN Answered(FromNetwork(response), {PutTask(name, url, response)})
  ELSE IF lookup = "rejects"
       THEN Answered(Rejected, {})
       ELSE IF Matched(cs, url) # {}
            THEN Answered(FromCache(cachesMatch(cs, url)), {})
            ELSE IF Matched(cs, OFFLINE_URL) # {}
                 THEN Answered(FromCache(cachesMatch(cs, OFFLINE_URL)), {})
                 ELSE Answered(NoResponse, {})

\* lines 196-240 as they would be without the test of response.ok at line 219
HandleAssetAnyStatus(cs, name, url, net, response, lookup) ==
  IF lookup = "rejects"
  THEN Answered(Synthesized(404), {})
  ELSE IF Matched(cs, url) # {}
       THEN Answered(FromCache(cachesMatch(cs, url)), {RefreshTask(name, url)})
       ELSE IF net = "fail"
            THEN Answered(Synthesized(404), {})
            ELSE Answered(FromNetwork(response), {PutTask(name, url, response)})

\* lines 196-240: scripts and styles, cache first; on a hit the refresh is
\* left running, on a miss net is the outcome of the fetch
HandleAsset(cs, name, url, net, response, lookup) ==
  IF lookup = "rejects"
  THEN Answered(Synthesized(404), {})
  ELSE IF Matched(cs, url) # {}
       THEN Answered(FromCache(cachesMatch(cs, url)), {RefreshTask(name, url)})
       ELSE IF net = "fail"
            THEN Answered(Synthesized(404), {})
            ELSE IF ~IsOk(response)
                 THEN Answered(FromNetwork(response), {})
                 ELSE Answered(FromNetwork(response), {PutTask(name, url, response)})

\* lines 243-270: stale-while-revalidate
HandleRuntime(cs, name, url, net, response, lookup) ==
  IF lookup = "rejects"
  THEN Answered(Synthesized(404), {})
  ELSE IF Matched(cs, url) # {}
       THEN Answered(FromCache(cachesMatch(cs, url)), {RefreshTask(name, url)})
       ELSE IF net = "fail"
            THEN Answered(NoResponse, {})
            ELSE IF ~IsOk(response)
                 THEN Answered(FromNetwork(response), {})
                 ELSE Answered(FromNetwork(response), {PutTask(name, url, response)})

\* lines 273-302: everything else, network first with a timeout of 3 s
HandleDefault(cs, name, url, net, response, lookup) ==
  IF net \notin {"fail", "slow"}
  THEN Answered(FromNetwork(response), {})
  ELSE LET late == IF net = "slow" THEN {LateTask(name, url)} ELSE {}
       IN IF lookup = "rejects"
          THEN Answered(Rejected, late)
          ELSE IF Matched(cs, url) # {}
               THEN Answered(FromCache(cachesMatch(cs, url)), late)
               ELSE Answered(Synthesized(408), late)

\* lines 134-155: the handler returns without respondWith
Skipped(request) ==
  \/ request.method # "GET"
  \/ request.url.protocol \notin {"http:", "https:"}
  \/ IncludesSupabase(request.url.host)

\* lines 134-303 as they would be with the test of line 243 before the one
\* of line 196
StrategyRuntimeFirst(request) ==
  IF Skipped(request)
  THEN "passThrough"
  ELSE IF request.mode = "navigate"
       THEN "networkFirst"
       ELSE IF shouldCacheAtRuntime(request.url)
            THEN "staleWhileRevalidate"
            ELSE IF request.destination \in {"style", "script"}
                 THEN "cacheFirst"
                 ELSE "networkWithTimeout"

\* lines 134-303: the branch of the fetch handler a request takes
Strategy(request) ==
  IF Skipped(request)
  THEN "passThrough"
  ELSE IF request.mode = "navigate"
       THEN "networkFirst"
       ELSE IF request.destination \in {"style", "script"}
            THEN "cacheFirst"
            ELSE IF shouldCacheAtRuntime(request.url)
                 THEN "staleWhileRevalidate"
                 ELSE "networkWithTimeout"

\* lines 134-303: the fetch handler of the worker whose CACHE_NAME is name, up
\* to the delivery of the response
HandleFetch(cs, name, request, net, response, lookup) ==
  LET strategy == Strategy(request)
  IN IF strategy = "passThrough"
     THEN Answered(NotIntercepted, {})
     ELSE IF strategy = "networkFirst"
          THEN HandleNavigation(cs, name, request.url, net, response, lookup)
          ELSE IF strategy = "cacheFirst"
               THEN HandleAsset(cs, name, request.url, net, response, lookup)
               ELSE IF strategy = "staleWhileRevalidate"
                    THEN HandleRuntime(cs, name, request.url, net, response, lookup)
                    ELSE HandleDefault(cs, name, request.url, net, response, lookup)

\* the end of a task: net and response are the outcome of its fetch, put is
\* how cache.put ends (a rejection is logged, lines 171, 207, 228, 255)
Complete(cs, task, net, response, put) ==
  IF task.op = "put"
  THEN IF put = "works" THEN cachePut(cs, task.name, task.url, task.response) ELSE cs
  ELSE IF task.op = "refresh" /\ net # "fail" /\ IsOk(response) /\ put = "works"
       THEN cachePut(cs, task.name, task.url, response)
       ELSE cs

\* the handler and the work it leaves behind, run to the end
RunToEnd(cs, answered, net, response) ==
  IF answered.tasks = {}
  THEN Handled(cs, answered.response)
  ELSE LET task == CHOOSE k \in answered.tasks : TRUE
       IN Handled(Complete(cs, task, net, response, "works"), answered.response)

\* no control message has been posted
NoMessages ==
  /\ registered = "service-worker.js"
  /\ asked = {}
  /\ reachable = {}
  /\ precaching = {}

InitWorker ==
  /\ NoMessages
  /\ caches = <<>>
  /\ swInstalled = FALSE
  /\ lastRequest = NoRequest
  /\ lastStrategy = "passThrough"
  /\ lastNet = "fail"
  /\ lastResponse = NotIntercepted
  /\ fetches = 0
  /\ generation = CACHE_NAME
  /\ pending = {}

\* cache.addAll(STATIC_ASSETS) and, when it fails, cache.add of each asset
\* with the failures ignored (lines 31-46)
Precached(cs, name, fetched) ==
  [n \in DOMAIN cs \cup {name} |->
     IF n = name
     THEN [u \in fetched |-> Response(200, u, 0)]
     ELSE cs[n]]

\* lines 28-51: the install event
Install ==
  /\ ~swInstalled
  /\ swInstalled' = TRUE
  /\ \E fetched \in SUBSET STATIC_ASSETS :
       caches' = Precached(caches, CACHE_NAME, fetched)
  /\ UNCHANGED <<lastRequest, lastStrategy, lastNet, lastResponse, fetches, generation, pending>>

\* lines 134-303: a fetch event of a page the worker controls, the handler
\* and its background work run without interruption
FetchEvent ==
  /\ swInstalled
  /\ fetches < MaxFetches
  /\ fetches' = fetches + 1
  /\ \E request \in Requests, net \in NetOutcomes :
       LET response == Response(NetStatus(net), request.url, fetches + 1)
           answered == HandleFetch(caches, CACHE_NAME, request, net, response, "works")
           h == RunToEnd(caches, answered, net, response)
       IN /\ caches' = h.caches
          /\ lastRequest' = request
          /\ lastStrategy' = Strategy(request)
          /\ lastNet' = net
          /\ lastResponse' = h.response
  /\ UNCHANGED <<swInstalled, generation, pending>>

\* the generation of the release before this one, whose worker controls the
\* pages until the worker of this release activates
OLD_CACHE_NAME == "nesttask-v4"

\* the requests of the interleaved runs: a page load, the application script
\* as a script and as a plain fetch, and a request of the default class
StepUrls ==
  {Url("https:", AppHost, <<>>, "", ""),
   Url("https:", AppHost, <<"assets">>, "app", "js"),
   Url("https:", AppHost, <<"api">>, "tasks", "")}

StepRequests ==
  {request \in Requests :
     /\ request.method = "GET"
     /\ request.url \in StepUrls
     /\ \/ request.mode = "navigate" /\ request.destination = "document"
        \/ request.mode = "cors" /\ request.destination \in {"script", ""}}

\* how the network answers a background refresh; "noContent" is an OK status
\* other than 200
RefreshOutcomes == {"ok", "noContent", "notOk", "fail"}

RefreshStatus(net) == IF net = "noContent" THEN 204 ELSE NetStatus(net)

\* the worker of the earlier release is in control, its install stored the
\* static assets under its own generation
InitSteps ==
  /\ InitHook
  /\ InitPage
  /\ idb = [version |-> DB_VERSION, stores |-> onupgradeneeded(<<>>, 0)]
  /\ idbOldVersion = -1
  /\ NoMessages
  /\ caches = Precached(<<>>, OLD_CACHE_NAME, STATIC_ASSETS)
  /\ swInstalled = FALSE
  /\ lastRequest = NoRequest
  /\ lastStrategy = "passThrough"
  /\ lastNet = "fail"
  /\ lastResponse = NotIntercepted
  /\ fetches = 0
  /\ generation = OLD_CACHE_NAME
  /\ pending = {}

\* lines 134-303: a fetch event, up to the delivery of the response; the
\* worker in control handles it and the work it leaves behind goes on
Fetch ==
  /\ fetches < MaxStepFetches
  /\ fetches' = fetches + 1
  /\ \E request \in StepRequests, net \in NetOutcomes, lookup \in CacheOutcomes :
       LET response == Response(NetStatus(net), request.url, fetches + 1)
           answered == HandleFetch(caches, generation, request, net, response, lookup)
       IN /\ Cardinality(pending \cup answered.tasks) <= MaxPending
          /\ pending' = pending \cup answered.tasks
          /\ lastRequest' = request
          /\ lastStrategy' = Strategy(request)
          /\ lastNet' = net
          /\ lastResponse' = answered.response
  /\ UNCHANGED <<caches, swInstalled, generation>>

\* lines 203-210, 169-171, 226-228, 249-256: a piece of background work ends
TaskEnds ==
  /\ \E task \in pending, net \in RefreshOutcomes, put \in CacheOutcomes :
       LET response == Response(RefreshStatus(net), task.url, fetches + 1)
       IN /\ caches' = Complete(caches, task, net, response, put)
          /\ pending' = pending \ {task}
  /\ UNCHANGED <<swInstalled, lastRequest, lastStrategy, lastNet, lastResponse, fetches, generation>>

\* caches.keys() filtered by cacheName !== CACHE_NAME, each deleted
deleteOldCaches(cs, name) == [n \in DOMAIN cs \cap {name} |-> cs[n]]

\* lines 68-103: the activate event of this release's worker, which takes
\* over the pages (skipWaiting at line 49, clients.claim at line 86)
Activate ==
  /\ swInstalled
  /\ generation # CACHE_NAME
  /\ caches' = deleteOldCaches(caches, CACHE_NAME)
  /\ generation' = CACHE_NAME
  /\ UNCHANGED <<swInstalled, lastRequest, lastStrategy, lastNet, lastResponse, fetches, pending>>

\* lines 407-429: the message CLEAR_OLD_CACHES, handled by the worker in
\* control
ClearOldCaches ==
  /\ caches' = deleteOldCaches(caches, generation)
  /\ UNCHANGED <<swInstalled, lastRequest, lastStrategy, lastNet, lastResponse, fetches, generation,
                 pending>>

\* src/public/sw.js, lines 2 and 11-24: the cache this worker precaches into
\* and the first of its precached assets
STATIC_CACHE_NAME == "nesttask-static-v1"
PRECACHE_ASSETS == {Url("https:", AppHost, <<>>, "", "")}

\* part_003, lines 6-11
PREDICTABLE_ROUTES ==
  {Url("https:", AppHost, <<>>, "tasks", ""),
   Url("https:", AppHost, <<>>, "routines", ""),
   Url("https:", AppHost, <<>>, "courses", ""),
   Url("https:", AppHost, <<>>, "dashboard", "")}

\* the two worker scripts of the repository: the one the pages register
\* (part_003 line 35, CACHE_NAME nesttask-v5) and public/sw.js
WorkerScripts == {"service-worker.js", "sw.js"}

\* the cache a worker script precaches into
CurrentCache(script) ==
  IF script = "sw.js" THEN STATIC_CACHE_NAME ELSE CACHE_NAME

\* a worker is installed and in control, its precache stored; the network
\* serves some of the routes
InitPrecache ==
  /\ InitHook
  /\ InitPage
  /\ idb = [version |-> DB_VERSION, stores |-> onupgradeneeded(<<>>, 0)]
  /\ idbOldVersion = -1
  /\ registered \in WorkerScripts
  /\ asked = {}
  /\ reachable \in SUBSET PREDICTABLE_ROUTES
  /\ precaching = {}
  /\ caches = IF registered = "sw.js"
              THEN Precached(<<>>, STATIC_CACHE_NAME, PRECACHE_ASSETS)
              ELSE Precached(<<>>, CACHE_NAME, STATIC_ASSETS)
  /\ swInstalled = TRUE
  /\ lastRequest = NoRequest
  /\ lastStrategy = "passThrough"
  /\ lastNet = "fail"
  /\ lastResponse = NotIntercepted
  /\ fetches = 0
  /\ generation = CACHE_NAME
  /\ pending = {}

\* the asset lists the page posts: precachePredictableRoutes (part_003 lines
\* 148-156) posts all the routes, prefetchRoute (159-180) posts one
AssetLists == {PREDICTABLE_ROUTES} \cup {{route} : route \in PREDICTABLE_ROUTES}

\* the message {type: 'precacheAssets', assets} reaches the worker: the
\* handlers of part_001 (lines 53-65 and 407-429) test for SKIP_WAITING and
\* CLEAR_OLD_CACHES only; the handler of sw.js (lines 227-233) opens the
\* static cache and starts cache.addAll(assets)
PrecacheAssets ==
  /\ Cardinality(precaching) < MaxMessages
  /\ \E assets \in AssetLists :
       /\ assets \notin precaching
       /\ ~(assets \subseteq asked)
       /\ asked' = asked \cup assets
       /\ precaching' = IF registered = "sw.js"
                        THEN precaching \cup {assets}
                        ELSE precaching
  /\ UNCHANGED <<registered, reachable, swVars>>

\* sw.js lines 230-232: cache.addAll(assets) ends; it stores the responses
\* only if every request of the list succeeded and rejects otherwise
AddAllEnds ==
  /\ \E assets \in precaching :
       /\ precaching' = precaching \ {assets}
       /\ caches' =
            IF assets \subseteq reachable
            THEN [caches EXCEPT ![STATIC_CACHE_NAME] =
                    [u \in DOMAIN @ \cup assets |->
                       IF u \in assets THEN Response(200, u, 1) ELSE @[u]]]
            ELSE caches
  /\ UNCHANGED <<registered, asked, reachable, swInstalled, lastRequest, lastStrategy, lastNet,
                 lastResponse, fetches, generation, pending>>

----------------------------------------------------------------------------
(* activateRoutine online, lines 760-778, in the steps its awaits allow:   *)
(* the remote call, the state update when it resolves, the read of the     *)
(* Local Store and the write.  Two calls can be in flight together.        *)

\* what a step of a call leaves alone in the hook
CallFrame ==
  UNCHANGED <<nextRid, nextSid, isOffline, loadPending, syncInProgress, renderedSync,
              nextTemp, nextTempSlot, pass, ops>>

\* lines 737-761: the handler starts and sends activateRoutineService(routineId)
ActivateCalled(c) ==
  /\ activations[c].pc = "idle"
  /\ ~isOffline
  /\ \E routineId \in DOMAIN routines :
         activations' = [activations EXCEPT ![c] =
                           [NoCall EXCEPT !.pc = "request", !.routineId = routineId]]
  /\ error' = NoError
  /\ CallFrame
  /\ UNCHANGED <<server, routines, db, tempSent>>

\* the backend serves the request of line 761
ServiceActivates(c) ==
  /\ activations[c].pc = "request"
  /\ server' = SrvActivate(server, activations[c].routineId)
  /\ tempSent' = (tempSent \/ IsTempId(activations[c].routineId))
  /\ activations' = [activations EXCEPT ![c].pc = "response"]
  /\ CallFrame
  /\ UNCHANGED <<routines, db, error>>

\* the request of line 761 fails: lines 780-783
ServiceRejects(c) ==
  /\ activations[c].pc = "request"
  /\ error' = RemoteError
  /\ activations' = [activations EXCEPT ![c].pc = "failed"]
  /\ CallFrame
  /\ UNCHANGED <<server, routines, db, tempSent>>

\* lines 764-772: the await of line 761 resumes, the state is updated and
\* the read of the Local Store is requested
ActivateResumes(c) ==
  /\ activations[c].pc = "response"
  /\ routines' = SetActive(routines, activations[c].routineId)
  /\ activations' = [activations EXCEPT ![c].pc = "read"]
  /\ CallFrame
  /\ UNCHANGED <<server, db, tempSent, error>>

\* line 772: getAllFromIndexedDB resolves with the stored records (kept here
\* by their keys)
ActivateReads(c) ==
  /\ activations[c].pc = "read"
  /\ activations' = [activations EXCEPT ![c].pc = "write",
                                        ![c].existingRoutines = db]
  /\ CallFrame
  /\ UNCHANGED <<server, routines, db, tempSent, error>>

\* lines 773-778: saveToIndexedDB of the routines read at line 772
ActivateWrites(c) ==
  /\ activations[c].pc = "write"
  /\ db' = saveAllToIndexedDB(db, SetActive(activations[c].existingRoutines,
                                            activations[c].routineId))
  /\ activations' = [activations EXCEPT ![c].pc = "done"]
  /\ CallFrame
  /\ UNCHANGED <<server, routines, tempSent, error>>

\* the hook is online and loadRoutines has stored the backend's routines
InitActivate ==
  /\ server = InitServer
  /\ nextRid = 3
  /\ nextSid = 2
  /\ db = saveAllToIndexedDB(Empty, InitServer)
  /\ routines = InitServer
  /\ isOffline = FALSE
  /\ loadPending = FALSE
  /\ syncInProgress = FALSE
  /\ renderedSync = FALSE
  /\ nextTemp = 0
  /\ nextTempSlot = 0
  /\ pass = [p \in Passes |-> IdlePass]
  /\ tempSent = FALSE
  /\ ops = 0
  /\ error = NoError
  /\ InitPage
  /\ idb = [version |-> DB_VERSION, stores |-> onupgradeneeded(<<>>, 0)]
  /\ idbOldVersion = -1
  /\ InitWorker

----------------------------------------------------------------------------
(* syncData of public/sw.js, lines 237-298, on one critical collection:    *)
(* the read of the collection, the POST of the pending items and the       *)
(* handling of the server's result.                                        *)

\* the keys of the items of the collection
SyncKeys == 1..MaxSyncKey

\* an item of a critical collection with its offline flags
Item(id, created, updated, deleted) ==
  [id |-> id, _isOffline |-> created, _isOfflineUpdated |-> updated,
   _isOfflineDeleted |-> deleted]

Items == {Item(id, c, u, d) : id \in SyncKeys, c \in BOOLEAN, u \in BOOLEAN, d \in BOOLEAN}

\* collections of items keyed by id, and sync results with one item per id
Collections ==
  UNION {{f \in [ids -> Items] : \A id \in ids : f[id].id = id} : ids \in SUBSET SyncKeys}

\* lines 254-256: item._isOffline || item._isOfflineUpdated || item._isOfflineDeleted
NeedsSync(item) == item._isOffline \/ item._isOfflineUpdated \/ item._isOfflineDeleted

\* lines 275-277: delete item._isOffline; delete item._isOfflineUpdated;
\* delete item._isOfflineDeleted (a deleted property reads as undefined)
DeleteFlags(item) ==
  [item EXCEPT !._isOffline = FALSE, !._isOfflineUpdated = FALSE,
               !._isOfflineDeleted = FALSE]

\* lines 273-284: the body of result.forEach, the test of line 279 reads the
\* item after the deletes of lines 275-277
ApplyItem(store, item) ==
  LET stripped == DeleteFlags(item)
  IN IF stripped._isOfflineDeleted
     THEN Remove(store, stripped.id)
     ELSE Put(store, stripped)

RECURSIVE ApplyResult(_, _, _)
\* lines 273-284: result.forEach over the items with the ids in todo
ApplyResult(store, result, todo) ==
  IF todo = {}
  THEN store
  ELSE LET id == CHOOSE i \in todo : \A j \in todo : i <= j
       IN ApplyResult(ApplyItem(store, result[id]), result, todo \ {id})

\* lines 247-258: getAll and the filter of the items that need syncing
SyncDataReads ==
  /\ syncPc = "idle"
  /\ LET pendingIds == {id \in DOMAIN collection : NeedsSync(collection[id])}
     IN /\ itemsToSync' = [id \in pendingIds |-> collection[id]]
        /\ syncPc' = IF pendingIds = {} THEN "done" ELSE "fetch"
  /\ UNCHANGED <<collection, syncResult>>

\* lines 268-285: the server's result arrives and is applied
SyncResultApplied ==
  /\ syncPc = "fetch"
  /\ \E result \in Collections \ {Empty} :
         /\ syncResult' = result
         /\ collection' = ApplyResult(collection, result, DOMAIN result)
  /\ syncPc' = "done"
  /\ UNCHANGED itemsToSync

\* lines 286-288: the fetch or the parsing of its answer fails
SyncFetchFails ==
  /\ syncPc = "fetch"
  /\ syncPc' = "done"
  /\ UNCHANGED <<collection, itemsToSync, syncResult>>

\* the worker gets the sync message with some collection on disk
InitSyncData ==
  /\ InitHook
  /\ NoActivations
  /\ NoUpdates
  /\ NoStorageInit
  /\ collection \in Collections
  /\ syncPc = "idle"
  /\ itemsToSync = Empty
  /\ syncResult = Empty
  /\ idb = [version |-> DB_VERSION, stores |-> onupgradeneeded(<<>>, 0)]
  /\ idbOldVersion = -1
  /\ InitWorker

----------------------------------------------------------------------------
(* initOfflineStorage of App.tsx, lines 527-567, up to the registration of *)
(* the service worker: checkStorageSpace and clearNonCriticalData.  Sizes  *)
(* are in bytes.                                                           *)

MB == 1024 * 1024

\* App.tsx line 538: 100 * 1024 * 1024
LOW_SPACE == 100 * MB

\* offlineStorage.ts lines 10-17: Object.values(STORES), in key order
StoreList == <<"tasks", "routines", "userData", "courses", "materials", "teachers">>

\* offlineStorage.ts line 20
CRITICAL_STORES == {"tasks", "routines", "courses"}

\* App.tsx lines 308-311: allStores.filter(store => !CRITICAL_STORES.includes(store))
nonCriticalStores == SelectSeq(StoreList, LAMBDA store : store \notin CRITICAL_STORES)

\* the quotas and usages of the estimates: none, one byte, and both sides
\* of the 100 MB threshold
Sizes == {0, 1, 50 * MB, LOW_SPACE - 1, LOW_SPACE, LOW_SPACE + 1, MaxQuotaMB * MB}

\* what navigator.storage.estimate() can report: a usage within the quota,
\* or nothing when the platform has no estimate or the call rejects
Estimates ==
  {[supported |-> FALSE, quota |-> 0, usage |-> 0]}
    \cup {e \in [supported : {TRUE}, quota : Sizes, usage : Sizes] : e.usage <= e.quota}

\* offlineStorage.ts lines 38-51: null, or the estimate with availableSpace
\* computed as `quota && usage ? quota - usage : 0`
checkStorageSpace(e) ==
  IF ~e.supported
  THEN [null |-> TRUE, availableSpace |-> 0]
  ELSE [null |-> FALSE,
        availableSpace |-> IF e.quota # 0 /\ e.usage # 0 THEN e.quota - e.usage ELSE 0]

\* App.tsx lines 531-541 and 303-311: the storage check, and under low space
\* the call of clearNonCriticalData up to its first clearIndexedDBStore
initOfflineStorage ==
  /\ storagePc = "idle"
  /\ LET storageInfo == checkStorageSpace(estimate)
     IN IF ~storageInfo.null /\ storageInfo.availableSpace < LOW_SPACE
        THEN /\ clearCalls' = clearCalls + 1
             /\ toClear' = nonCriticalStores
             /\ storagePc' = "clearing"
        ELSE /\ storagePc' = "done"
             /\ UNCHANGED <<clearCalls, toClear>>
  /\ UNCHANGED <<estimate, storeData, clearedStores>>

\* App.tsx lines 314-316 and offlineStorage.ts lines 337-359: store.clear()
\* of the next store succeeds
ClearStore ==
  /\ storagePc = "clearing"
  /\ toClear # <<>>
  /\ storeData' = [storeData EXCEPT ![Head(toClear)] = {}]
  /\ clearedStores' = clearedStores \cup {Head(toClear)}
  /\ toClear' = Tail(toClear)
  /\ storagePc' = IF Tail(toClear) = <<>> THEN "done" ELSE "clearing"
  /\ UNCHANGED <<estimate, clearCalls>>

\* App.tsx lines 320-323: clearIndexedDBStore rejects, the loop ends in the catch
ClearStoreFails ==
  /\ storagePc = "clearing"
  /\ toClear # <<>>
  /\ clearedStores' = clearedStores \cup {Head(toClear)}
  /\ toClear' = <<>>
  /\ storagePc' = "done"
  /\ UNCHANGED <<estimate, storeData, clearCalls>>

\* the application starts with some records in the stores and some storage
\* estimate of the platform
InitStorage ==
  /\ InitHook
  /\ NoActivations
  /\ NoSync
  /\ NoUpdates
  /\ estimate \in Estimates
  /\ storeData \in [STORES -> {{}, {1}}]
  /\ storagePc = "idle"
  /\ toClear = <<>>
  /\ clearCalls = 0
  /\ clearedStores = {}
  /\ idb = [version |-> DB_VERSION, stores |-> onupgradeneeded(<<>>, 0)]
  /\ idbOldVersion = -1
  /\ InitWorker

----------------------------------------------------------------------------
(* applyUpdate of serviceWorkerUtils.ts, lines 47-106, in the steps its    *)
(* awaits allow, with the functions that reset its flag and the events of  *)
(* the platform it waits for.                                              *)

\* the call returns: the exit names the return statement taken
Resolved(exit, value) == [pc |-> "resolved", exit |-> exit, value |-> value]

\* lines 48-53: the guard, and the flag set when the call passes it
ApplyUpdateCalled(u) ==
  /\ applyCalls[u].pc = "idle"
  /\ IF ~swSupported
     THEN /\ applyCalls' = [applyCalls EXCEPT ![u] = Resolved("unsupported", FALSE)]
          /\ UNCHANGED updateInProgress
     ELSE IF updateInProgress
          THEN /\ applyCalls' = [applyCalls EXCEPT ![u] = Resolved("inProgress", FALSE)]
               /\ UNCHANGED updateInProgress
          ELSE /\ applyCalls' = [applyCalls EXCEPT ![u].pc = "registrations"]
               /\ updateInProgress' = TRUE
  /\ UNCHANGED <<swSupported, registration>>

\* lines 56-100: getRegistrations resolves; with a waiting worker the call
\* listens for controllerchange, starts its timer and posts SKIP_WAITING
RegistrationsResolve(u) ==
  /\ applyCalls[u].pc = "registrations"
  /\ CASE registration = "none" ->
            /\ applyCalls' = [applyCalls EXCEPT ![u] = Resolved("noRegistration", FALSE)]
            /\ updateInProgress' = FALSE
       [] registration = "active" ->
            /\ applyCalls' = [applyCalls EXCEPT ![u] = Resolved("noWaiting", FALSE)]
            /\ updateInProgress' = FALSE
       [] registration = "waiting" ->
            /\ applyCalls' = [applyCalls EXCEPT ![u].pc = "listening"]
            /\ UNCHANGED updateInProgress
  /\ UNCHANGED <<swSupported, registration>>

\* lines 101-105: getRegistrations rejects
RegistrationsReject(u) ==
  /\ applyCalls[u].pc = "registrations"
  /\ applyCalls' = [applyCalls EXCEPT ![u] = Resolved("error", FALSE)]
  /\ updateInProgress' = FALSE
  /\ UNCHANGED <<swSupported, registration>>

\* lines 79-85, after the worker's skipWaiting (part_001 lines 57-63): the
\* waiting worker takes control and every listening call gets the event
ControllerChange ==
  /\ registration = "waiting"
  /\ \E u \in Updates : applyCalls[u].pc = "listening"
  /\ registration' = "active"
  /\ applyCalls' = [u \in Updates |->
                   IF applyCalls[u].pc = "listening"
                   THEN Resolved("controllerchange", TRUE)
                   ELSE applyCalls[u]]
  /\ updateInProgress' = FALSE
  /\ UNCHANGED swSupported

\* lines 71-76 with the reset of the flag at line 74 left out
ControllerChangeTimeoutKeepsFlag(u) ==
  /\ applyCalls[u].pc = "listening"
  /\ applyCalls' = [applyCalls EXCEPT ![u] = Resolved("timeout", FALSE)]
  /\ UNCHANGED <<updateInProgress, swSupported, registration>>

\* lines 71-76: 10 s have passed without controllerchange
ControllerChangeTimeout(u) ==
  /\ applyCalls[u].pc = "listening"
  /\ applyCalls' = [applyCalls EXCEPT ![u] = Resolved("timeout", FALSE)]
  /\ updateInProgress' = FALSE
  /\ UNCHANGED <<swSupported, registration>>

\* lines 111-124, also called by initServiceWorkerUpdates (line 133) and by
\* triggerManualUpdateCheck (line 186)
resetUpdateNotificationState ==
  /\ updateInProgress
  /\ updateInProgress' = FALSE
  /\ UNCHANGED <<applyCalls, swSupported, registration>>

\* the platform installs a new version of the worker, which waits
UpdateFound ==
  /\ registration = "active"
  /\ registration' = "waiting"
  /\ UNCHANGED <<updateInProgress, applyCalls, swSupported>>

\* the page on some platform: with or without service workers, with or
\* without a registration, its worker active or a new one waiting
InitUpdate ==
  /\ InitHook
  /\ NoActivations
  /\ NoSync
  /\ NoStorageInit
  /\ updateInProgress = FALSE
  /\ applyCalls = [u \in Updates |-> NoUpdate]
  /\ swSupported \in BOOLEAN
  /\ registration \in {"none", "active", "waiting"}
  /\ idb = [version |-> DB_VERSION, stores |-> onupgradeneeded(<<>>, 0)]
  /\ idbOldVersion = -1
  /\ InitWorker

----------------------------------------------------------------------------
(* Specifications *)

Settled == renderedSync = syncInProgress

\* Handlers run one at a time and the component re-renders between them:
\* a pass, once started, runs to its end before the next handler starts.
Next ==
  \/ Quiet /\ Settled /\ GoOffline /\ HookOnly
  \/ Quiet /\ Settled /\ GoOnline /\ HookOnly
  \/ Quiet /\ Settled /\ LoadRoutines /\ HookOnly
  \/ Quiet /\ Settled /\ CreateRoutine /\ HookOnly
  \/ Quiet /\ Settled /\ UpdateRoutine /\ HookOnly
  \/ Quiet /\ Settled /\ DeleteRoutine /\ HookOnly
  \/ Quiet /\ Settled /\ AddRoutineSlot /\ HookOnly
  \/ Quiet /\ Settled /\ UpdateRoutineSlot /\ HookOnly
  \/ Quiet /\ Settled /\ DeleteRoutineSlot /\ HookOnly
  \/ Quiet /\ Settled /\ ActivateRoutine /\ HookOnly
  \/ Quiet /\ Settled /\ DeactivateRoutine /\ HookOnly
  \/ Quiet /\ Settled /\ BulkImportRoutineSlots /\ HookOnly
  \/ Quiet /\ Settled /\ SyncStart(1) /\ HookOnly
  \/ Settled /\ SyncProcess(1) /\ HookOnly
  \/ Settled /\ SyncClear(1) /\ HookOnly
  \/ Settled /\ SyncSave(1) /\ HookOnly
  \/ Settled /\ SyncFinally(1) /\ HookOnly
  \/ Render /\ HookOnly

\* the hook starts on a database its own release has opened
Init ==
  /\ InitHook
  /\ InitPage
  /\ idb = [version |-> DB_VERSION, stores |-> onupgradeneeded(<<>>, 0)]
  /\ idbOldVersion = -1
  /\ InitWorker

Spec == Init /\ [][Next]_vars

\* The handlers of Spec, one at a time, and the same handlers with a failing
\* remote call or a failing Local Store request.
NextFail ==
  \/ Quiet /\ Settled /\ GoOffline /\ HookOnly
  \/ Quiet /\ Settled /\ GoOnline /\ HookOnly
  \/ Quiet /\ Settled /\ LoadRoutines /\ HookOnly
  \/ Quiet /\ Settled /\ ops < MaxFailOps /\ CreateRoutine /\ HookOnly
  \/ Quiet /\ Settled /\ ops < MaxFailOps /\ UpdateRoutine /\ HookOnly
  \/ Quiet /\ Settled /\ ops < MaxFailOps /\ DeleteRoutine /\ HookOnly
  \/ Quiet /\ Settled /\ ops < MaxFailOps /\ AddRoutineSlot /\ HookOnly
  \/ Quiet /\ Settled /\ ops < MaxFailOps /\ UpdateRoutineSlot /\ HookOnly
  \/ Quiet /\ Settled /\ ops < MaxFailOps /\ DeleteRoutineSlot /\ HookOnly
  \/ Quiet /\ Settled /\ ops < MaxFailOps /\ ActivateRoutine /\ HookOnly
  \/ Quiet /\ Settled /\ ops < MaxFailOps /\ DeactivateRoutine /\ HookOnly
  \/ Quiet /\ Settled /\ ops < MaxFailOps /\ BulkImportRoutineSlots /\ HookOnly
  \/ Quiet /\ Settled /\ ops < MaxFailOps /\ CreateRoutineFails /\ HookOnly
  \/ Quiet /\ Settled /\ ops < MaxFailOps /\ UpdateRoutineFails /\ HookOnly
  \/ Quiet /\ Settled /\ ops < MaxFailOps /\ DeleteRoutineFails /\ HookOnly
  \/ Quiet /\ Settled /\ ops < MaxFailOps /\ AddRoutineSlotFails /\ HookOnly
  \/ Quiet /\ Settled /\ ops < MaxFailOps /\ UpdateRoutineSlotFails /\ HookOnly
  \/ Quiet /\ Settled /\ ops < MaxFailOps /\ DeleteRoutineSlotFails /\ HookOnly
  \/ Quiet /\ Settled /\ ops < MaxFailOps /\ ActivateRoutineFails /\ HookOnly
  \/ Quiet /\ Settled /\ ops < MaxFailOps /\ DeactivateRoutineFails /\ HookOnly
  \/ Quiet /\ Settled /\ ops < MaxFailOps /\ DeleteRoutineCleanupFails /\ HookOnly
  \/ Quiet /\ Settled /\ SyncStart(1) /\ HookOnly
  \/ Quiet /\ Settled /\ SyncStartStoreFails(1) /\ HookOnly
  \/ Settled /\ SyncProcess(1) /\ HookOnly
  \/ Settled /\ SyncClear(1) /\ HookOnly
  \/ Settled /\ SyncClearFails(1) /\ HookOnly
  \/ Settled /\ SyncSave(1) /\ HookOnly
  \/ Settled /\ SyncSaveFails(1) /\ HookOnly
  \/ Settled /\ SyncFinally(1) /\ HookOnly
  \/ Render /\ HookOnly

SpecFail == Init /\ [][NextFail]_vars

\* Handlers and up to two syncOfflineChanges calls interleave at the awaits
\* of the pass.  The second call is one made while the first is in flight.
NextConc ==
  \/ GoOffline /\ HookOnly
  \/ GoOnline /\ HookOnly
  \/ LoadRoutines /\ HookOnly
  \/ ops < MaxConcOps /\ CreateRoutine /\ HookOnly
  \/ ops < MaxConcOps /\ UpdateRoutine /\ HookOnly
  \/ ops < MaxConcOps /\ DeleteRoutine /\ HookOnly
  \/ ops < MaxConcOps /\ AddRoutineSlot /\ HookOnly
  \/ ops < MaxConcOps /\ UpdateRoutineSlot /\ HookOnly
  \/ ops < MaxConcOps /\ DeleteRoutineSlot /\ HookOnly
  \/ ops < MaxConcOps /\ ActivateRoutine /\ HookOnly
  \/ ops < MaxConcOps /\ DeactivateRoutine /\ HookOnly
  \/ ops < MaxConcOps /\ BulkImportRoutineSlots /\ HookOnly
  \/ SyncStart(1) /\ HookOnly
  \/ pass[1].pc # "idle" /\ SyncStart(2) /\ HookOnly
  \/ \E p \in Passes : SyncProcess(p) /\ HookOnly
  \/ \E p \in Passes : SyncClear(p) /\ HookOnly
  \/ \E p \in Passes : SyncSave(p) /\ HookOnly
  \/ \E p \in Passes : SyncFinally(p) /\ HookOnly
  \/ Render /\ HookOnly

SpecConc == Init /\ [][NextConc]_vars

\* The application opens a database that an earlier release left on disk.
InitDb ==
  /\ InitHook
  /\ InitPage
  /\ idb \in PersistedDatabases
  /\ idbOldVersion = -1
  /\ InitWorker

NextDb == OpenDatabase /\ UNCHANGED <<hookVars, swVars, msgVars, pageVars>>

SpecDb == InitDb /\ [][NextDb]_vars

\* The service worker installs and then serves the fetch events of its pages.
NextWorker ==
  \/ Install /\ UNCHANGED <<hookVars, dbVars, msgVars, pageVars>>
  \/ FetchEvent /\ UNCHANGED <<hookVars, dbVars, msgVars, pageVars>>

SpecWorker == Init /\ [][NextWorker]_vars

\* The worker's events with the background work of its fetch handlers
\* interleaved, across the takeover by this release's worker.
NextSteps ==
  \/ Install /\ UNCHANGED <<hookVars, dbVars, msgVars, pageVars>>
  \/ Activate /\ UNCHANGED <<hookVars, dbVars, msgVars, pageVars>>
  \/ Fetch /\ UNCHANGED <<hookVars, dbVars, msgVars, pageVars>>
  \/ TaskEnds /\ UNCHANGED <<hookVars, dbVars, msgVars, pageVars>>
  \/ ClearOldCaches /\ UNCHANGED <<hookVars, dbVars, msgVars, pageVars>>

\* The control messages that ask the worker to precache assets.  The
\* callbacks of a started cache.addAll run, hence the weak fairness.
NextPrecache ==
  \/ PrecacheAssets /\ UNCHANGED <<hookVars, dbVars, pageVars>>
  \/ AddAllEnds /\ UNCHANGED <<hookVars, dbVars, pageVars>>

SpecPrecache ==
  /\ InitPrecache
  /\ [][NextPrecache]_vars
  /\ WF_vars(AddAllEnds /\ UNCHANGED <<hookVars, dbVars, pageVars>>)

SpecSteps == InitSteps /\ [][NextSteps]_vars

\* The steps of the online activateRoutine calls interleave.
ActivateOnly == UNCHANGED <<dbVars, swVars, msgVars, syncVars, updVars, storVars>>

NextActivate ==
  \/ \E c \in Calls : ActivateCalled(c) /\ ActivateOnly
  \/ \E c \in Calls : ServiceActivates(c) /\ ActivateOnly
  \/ \E c \in Calls : ServiceRejects(c) /\ ActivateOnly
  \/ \E c \in Calls : ActivateResumes(c) /\ ActivateOnly
  \/ \E c \in Calls : ActivateReads(c) /\ ActivateOnly
  \/ \E c \in Calls : ActivateWrites(c) /\ ActivateOnly

SpecActivate == InitActivate /\ [][NextActivate]_vars

\* The worker's syncData on one critical collection.
SyncDataOnly ==
  UNCHANGED <<hookVars, dbVars, swVars, msgVars, callVars, updVars, storVars>>

NextSyncData ==
  \/ SyncDataReads /\ SyncDataOnly
  \/ SyncResultApplied /\ SyncDataOnly
  \/ SyncFetchFails /\ SyncDataOnly

SpecSyncData == InitSyncData /\ [][NextSyncData]_vars

\* The applyUpdate calls with the platform's events.  A getRegistrations
\* promise settles and a started timer fires, hence the weak fairness; the
\* controllerchange event need not come.
UpdateOnly ==
  UNCHANGED <<hookVars, dbVars, swVars, msgVars, callVars, syncVars, storVars>>

NextUpdate ==
  \/ \E u \in Updates : ApplyUpdateCalled(u) /\ UpdateOnly
  \/ \E u \in Updates : RegistrationsResolve(u) /\ UpdateOnly
  \/ \E u \in Updates : RegistrationsReject(u) /\ UpdateOnly
  \/ \E u \in Updates : ControllerChangeTimeout(u) /\ UpdateOnly
  \/ ControllerChange /\ UpdateOnly
  \/ resetUpdateNotificationState /\ UpdateOnly
  \/ UpdateFound /\ UpdateOnly

\* a step that settles the promise or fires the timer of call u
Settles(u) ==
  (RegistrationsResolve(u) \/ RegistrationsReject(u) \/ ControllerChangeTimeout(u))
    /\ UpdateOnly

SpecUpdate ==
  /\ InitUpdate
  /\ [][NextUpdate]_vars
  /\ \A u \in Updates : WF_vars(Settles(u))

\* initOfflineStorage at the start of the application.
StorageOnly ==
  UNCHANGED <<hookVars, dbVars, swVars, msgVars, callVars, syncVars, updVars>>

NextStorage ==
  \/ initOfflineStorage /\ StorageOnly
  \/ ClearStore /\ StorageOnly
  \/ ClearStoreFails /\ StorageOnly

SpecStorage == InitStorage /\ [][NextStorage]_vars

----------------------------------------------------------------------------
(* Properties.  Under Spec a state with pass[1].pc = "done" is the state   *)
(* right after a pass: its commit has been written and nothing else has    *)
(* run since.                                                              *)

PassDone == pass[1].pc = "done"

\* the snapshot's record of routine id
Snapshot(id) ==
  LET s == pass[1].offlineRoutines
  IN s[CHOOSE i \in DOMAIN s : s[i].id = id]

\* the ids of the records of a store that are marked active
ActiveIn(store) == {i \in DOMAIN store : store[i].isActive}

\* a routine record carries a pending flag
RoutinePending(r) == r._isOffline \/ r._isOfflineUpdated \/ r._isOfflineDeleted

\* some slot of routine rid in the Local Store has id sid and satisfies flag f
SlotHas(rid, sid, f) ==
  /\ rid \in DOMAIN db
  /\ \E k \in DOMAIN db[rid].slots : db[rid].slots[k].id = sid /\ db[rid].slots[k][f]

SlotIn(rid, sid) == rid \in DOMAIN db /\ sid \in SeqIds(db[rid].slots)

\* the remote operation op of the pass succeeded: its record is in the Local
\* Store without the flag of that operation
OpCommitted(op) ==
  LET kind == op[1]
      rid == op[2]
      sid == op[3]
  IN CASE kind = "delete" -> rid \notin DOMAIN db
       [] kind = "create" ->
            /\ rid \notin DOMAIN db
            /\ \E c \in pass[1].created :
                 c[1] = rid /\ c[2] \in DOMAIN db /\ ~RoutinePending(db[c[2]])
       [] kind = "update" -> rid \in DOMAIN db /\ ~db[rid]._isOfflineUpdated
       [] kind = "activate" -> rid \in DOMAIN db /\ ~db[rid]._needsActivationSync
       [] kind = "deactivate" -> rid \in DOMAIN db /\ ~db[rid]._needsDeactivationSync
       [] kind = "addSlot" -> rid \in DOMAIN db /\ ~SlotIn(rid, sid)
       [] kind = "updateSlot" -> SlotIn(rid, sid) /\ ~SlotHas(rid, sid, "_isOfflineUpdated")
       [] kind = "deleteSlot" -> rid \in DOMAIN db /\ ~SlotIn(rid, sid)

\* the remote operation op of the pass failed: its record is still in the
\* Local Store with the flag of that operation
OpStillPending(op) ==
  LET kind == op[1]
      rid == op[2]
      sid == op[3]
  IN CASE kind = "delete" -> rid \in DOMAIN db /\ db[rid]._isOfflineDeleted
       [] kind = "create" -> rid \in DOMAIN db /\ db[rid]._isOffline
       [] kind = "update" -> rid \in DOMAIN db /\ db[rid]._isOfflineUpdated
       [] kind = "activate" -> rid \in DOMAIN db /\ db[rid]._needsActivationSync
       [] kind = "deactivate" -> rid \in DOMAIN db /\ db[rid]._needsDeactivationSync
       [] kind = "addSlot" -> SlotHas(rid, sid, "_isOffline")
       [] kind = "updateSlot" -> SlotHas(rid, sid, "_isOfflineUpdated")
       [] kind = "deleteSlot" -> SlotHas(rid, sid, "_isOfflineDeleted")

\* C1: after a pass in which the remote create of an offline-created routine
\* with temp id T succeeded, the Local Store holds no record with id T and
\* exactly one record with the id the backend issued for it.
C1_TempIdReplaced ==
  PassDone =>
    \A c \in pass[1].created :
      /\ \A i \in DOMAIN db : db[i].id # c[1]
      /\ Cardinality({i \in DOMAIN db : db[i].id = c[2]}) = 1

\* a pass has ended in which the remote create of a temp-id routine succeeded
C1_Witness ==
  PassDone /\ \E c \in pass[1].created : IsTempId(c[1]) /\ ~IsTempId(c[2])

\* C2: no remote call is ever issued with a temp id as routine id or slot id.
C2_NoTempIdSent == ~tempSent

\* C3: at most one syncOfflineChanges pass is in flight at any time.
C3_SinglePassInFlight == ~(InFlight(1) /\ InFlight(2))

\* C4: after a pass whose remote operations all succeeded, a second pass
\* with no mutation in between finds nothing to do: it issues no remote call.
C4_SecondPassIdle ==
  (PassDone /\ pass[1].syncErrors = 0) => NumCalls(getAllFromIndexedDB(db)) = 0

\* C5: a routine record of the Local Store that carries a pending flag keeps
\* the record, each of its pending flags and its content over every step that
\* is neither a mutation by the user nor a step of a pass: in particular over
\* a loadRoutines run while online.
C5_PendingKept ==
  [][(Quiet /\ ops' = ops) =>
       \A id \in DOMAIN db :
         RoutinePending(db[id]) =>
           /\ id \in DOMAIN db'
           /\ db[id]._isOffline => db'[id]._isOffline
           /\ db[id]._isOfflineUpdated => db'[id]._isOfflineUpdated
           /\ db[id]._isOfflineDeleted => db'[id]._isOfflineDeleted
           /\ db'[id].name = db[id].name]_vars

\* C6 as stated: after a pass, the result is true exactly if no remote
\* operation failed, every operation that succeeded has its record committed
\* without the operation's flag, and every operation that failed has its
\* record still in the Local Store with the operation's flag.
C6_PartialFailure ==
  PassDone =>
    /\ pass[1].result = (pass[1].failed = {})
    /\ \A op \in pass[1].ok : OpCommitted(op)
    /\ \A op \in pass[1].failed : OpStillPending(op)

\* some remote activation of the pass succeeded
ActivationSucceeded == \E op \in pass[1].ok : op[1] = "activate"

\* C7: no routine and no slot of the Local Store carries both _isOffline and
\* _isOfflineDeleted.
C7_NoCreateAndDelete ==
  \A id \in DOMAIN db :
    /\ ~(db[id]._isOffline /\ db[id]._isOfflineDeleted)
    /\ \A k \in DOMAIN db[id].slots :
         ~(db[id].slots[k]._isOffline /\ db[id].slots[k]._isOfflineDeleted)

\* C8: in every state of the Local Store, the states between the steps of a
\* commit included, every routine and every slot whose id is a temp id
\* carries _isOffline.
C8_TempIdsPending ==
  \A id \in DOMAIN db :
    /\ IsTempId(id) => db[id]._isOffline
    /\ \A k \in DOMAIN db[id].slots :
         IsTempSlotId(db[id].slots[k].id) => db[id].slots[k]._isOffline

\* a commit has rewritten the store and a temp-id routine is still in it
C8_Witness ==
  PassDone /\ pass[1].hasChanges /\ \E id \in DOMAIN db : IsTempId(id)

\* C9: after a pass in which a remote activation succeeded, exactly one
\* routine is active in the Local Store and in the in-memory state.
C9_OneActiveAfterSync ==
  (PassDone /\ ActivationSucceeded) =>
    /\ Cardinality(ActiveIn(db)) = 1
    /\ Cardinality(ActiveIn(routines)) = 1

\* C10: after a pass that created an offline-created routine remotely, each
\* slot created offline under it either has been created remotely under the
\* routine's server-issued id or is still pending under that id in the Local
\* Store.
C10_ChildSlotKept ==
  PassDone =>
    \A c \in pass[1].created :
      \A k \in DOMAIN Snapshot(c[1]).slots :
        LET s == Snapshot(c[1]).slots[k]
        IN s._isOffline =>
             \/ <<"addSlot", c[2], s.id>> \in pass[1].ok
             \/ SlotHas(c[2], s.id, "_isOffline")

\* the remote operations the pass issued, whatever their outcome
Issued == pass[1].ok \cup pass[1].failed

\* C11: a pass applies the flags of a record with the precedence delete,
\* create, update, for routines and for slots alike: a routine or slot of the
\* snapshot marked _isOfflineDeleted gets a remote delete and no remote create
\* or update; a routine or slot marked _isOffline (and not deleted) gets a
\* remote create and no remote update.
C11_DeleteCreateUpdate ==
  PassDone =>
    \A i \in DOMAIN pass[1].offlineRoutines :
      LET r == pass[1].offlineRoutines[i]
      IN /\ r._isOfflineDeleted =>
              /\ <<"delete", r.id, 0>> \in Issued
              /\ <<"create", r.id, 0>> \notin Issued
              /\ <<"update", r.id, 0>> \notin Issued
         /\ (r._isOffline /\ ~r._isOfflineDeleted) =>
              /\ <<"create", r.id, 0>> \in Issued
              /\ <<"update", r.id, 0>> \notin Issued
         /\ (~r._isOffline /\ ~r._isOfflineDeleted) =>
              \A k \in DOMAIN r.slots :
                LET s == r.slots[k]
                IN /\ s._isOfflineDeleted =>
                        /\ <<"deleteSlot", r.id, s.id>> \in Issued
                        /\ <<"addSlot", r.id, s.id>> \notin Issued
                        /\ <<"updateSlot", r.id, s.id>> \notin Issued
                   /\ (s._isOffline /\ ~s._isOfflineDeleted) =>
                        /\ <<"addSlot", r.id, s.id>> \in Issued
                        /\ <<"updateSlot", r.id, s.id>> \notin Issued

\* C12: when the Local Store cannot be opened or read at the start of
\* syncOfflineChanges, the pass ends with the error 'Failed to sync offline
\* changes' and the result false, having issued no remote call.
C12_UnreadableStoreFailsPass ==
  (PassDone /\ pass[1].readFailed) =>
    /\ error = SyncError
    /\ ~pass[1].result
    /\ pass[1].calls = 0

\* the rest of C12: no step of such a pass writes to the Local Store
C12_StoreUntouched ==
  [][(pass[1].readFailed \/ pass'[1].readFailed) => db' = db]_vars

\* C13: a reader of the routines collection that runs while a pass commits
\* (a second syncOfflineChanges taking its snapshot, or an offline
\* loadRoutines, after the first pass has cleared the store and before it has
\* saved) reads the complete contents of before the commit or the complete
\* contents of after it, never an empty or partial collection.
C13_ReaderSeesWholeStore ==
  [][((SyncStart(2) \/ (isOffline /\ LoadRoutines)) /\ pass[1].pc = "save") =>
       \/ getAllFromIndexedDB(db) = pass[1].offlineRoutines
       \/ db = pass[1].syncedRoutines]_vars

\* C14: when clearIndexedDBStore or saveToIndexedDB rejects during the commit
\* of a pass, the routines collection holds what it held when the pass
\* started, and the pass ends as a failed operation: the error is set and the
\* result is false.
C14_FailedCommitKeepsStore ==
  (PassDone /\ pass[1].threw /\ pass[1].hasChanges) =>
    /\ getAllFromIndexedDB(db) = pass[1].offlineRoutines
    /\ error = SyncError
    /\ ~pass[1].result

\* slot sid of routine rid in store satisfies flag f
SlotFlag(store, rid, sid, f) ==
  /\ rid \in DOMAIN store
  /\ \E k \in DOMAIN store[rid].slots :
        store[rid].slots[k].id = sid /\ store[rid].slots[k][f]

\* what an offline mutation leaves behind: the record in the Local Store with
\* the flag of the mutation, and the change in the in-memory state
OfflineCreated ==
  \E id \in DOMAIN db' \ DOMAIN db :
    /\ db'[id]._isOffline
    /\ id \in DOMAIN routines' \ DOMAIN routines
    /\ routines'[id].name = db'[id].name

OfflineUpdated ==
  \E id \in DOMAIN routines, name \in Names :
    /\ id \in DOMAIN db' /\ db'[id]._isOfflineUpdated /\ db'[id].name = name
    /\ routines'[id].name = name

OfflineDeleted ==
  \E id \in DOMAIN routines :
    /\ id \in DOMAIN db' /\ db'[id]._isOfflineDeleted
    /\ id \notin DOMAIN routines'

OfflineSlotsAdded ==
  \E rid \in DOMAIN routines :
    /\ SeqIds(routines'[rid].slots) # SeqIds(routines[rid].slots)
    /\ \A sid \in SeqIds(routines'[rid].slots) \ SeqIds(routines[rid].slots) :
          SlotFlag(db', rid, sid, "_isOffline")

OfflineSlotUpdated ==
  \E rid \in DOMAIN routines, name \in Names :
    \E sid \in SeqIds(routines[rid].slots) :
      /\ SlotFlag(db', rid, sid, "_isOfflineUpdated")
      /\ \E k \in DOMAIN db'[rid].slots :
            db'[rid].slots[k].id = sid /\ db'[rid].slots[k].name = name
      /\ \E k \in DOMAIN routines'[rid].slots :
            routines'[rid].slots[k].id = sid /\ routines'[rid].slots[k].name = name

\* a slot that was created offline has nothing pending once it is removed
OfflineSlotDeleted ==
  \E rid \in DOMAIN routines :
    \E sid \in SeqIds(routines[rid].slots) :
      /\ sid \notin SeqIds(routines'[rid].slots)
      /\ rid \in DOMAIN db'
      /\ IF IsTempSlotId(sid)
         THEN sid \notin SeqIds(db'[rid].slots)
         ELSE SlotFlag(db', rid, sid, "_isOfflineDeleted")

OfflineActivated ==
  \E rid \in DOMAIN routines :
    /\ rid \in DOMAIN db' /\ db'[rid]._needsActivationSync /\ db'[rid].isActive
    /\ routines'[rid].isActive

OfflineDeactivated ==
  \E rid \in DOMAIN routines :
    /\ rid \in DOMAIN db' /\ db'[rid]._needsDeactivationSync /\ ~db'[rid].isActive
    /\ ~routines'[rid].isActive

\* C15: while isOffline is true no operation of the hook issues a remote
\* call (the backend, its id counters and the record of ids sent stay as they
\* are, and no pass starts); each mutation writes the affected record to the
\* Local Store with the matching pending flag and applies the change to the
\* in-memory routines.
C15_OfflineStaysLocal ==
  [][isOffline =>
       /\ server' = server /\ nextRid' = nextRid /\ nextSid' = nextSid
       /\ tempSent' = tempSent
       /\ ~SyncStart(1)
       /\ CreateRoutine => OfflineCreated
       /\ UpdateRoutine => OfflineUpdated
       /\ DeleteRoutine => OfflineDeleted
       /\ AddRoutineSlot => OfflineSlotsAdded
       /\ BulkImportRoutineSlots => OfflineSlotsAdded
       /\ UpdateRoutineSlot => OfflineSlotUpdated
       /\ DeleteRoutineSlot => OfflineSlotDeleted
       /\ ActivateRoutine => OfflineActivated
       /\ DeactivateRoutine => OfflineDeactivated]_vars

\* C16: when the remote call of an online mutation fails, the hook's error
\* state is set (the error is rethrown to the caller) and the call changes
\* neither the in-memory routines nor the Local Store.
C16_FailedCallChangesNothing ==
  [][(\/ CreateRoutineFails \/ UpdateRoutineFails \/ DeleteRoutineFails
      \/ AddRoutineSlotFails \/ UpdateRoutineSlotFails \/ DeleteRoutineSlotFails
      \/ ActivateRoutineFails \/ DeactivateRoutineFails) =>
       /\ error' = RemoteError
       /\ routines' = routines
       /\ db' = db]_vars

\* an online mutation has failed on a hook that holds routines
C16_Witness ==
  /\ ~isOffline
  /\ error = RemoteError
  /\ ops > 0
  /\ DOMAIN routines # {}
  /\ DOMAIN db # {}

\* the step is a deleteRoutineSlot of slot sid of routine rid
SlotDeleted(rid, sid) ==
  /\ DeleteRoutineSlot
  /\ rid \in DOMAIN routines /\ rid \in DOMAIN routines'
  /\ sid \in SeqIds(routines[rid].slots)
  /\ sid \notin SeqIds(routines'[rid].slots)

\* C17: deleteRoutineSlot on a slot with a temp slot id removes the slot from
\* its routine in the Local Store and from the in-memory state and issues no
\* remote call: the backend is left alone and no temp id is sent to it.
C17_TempSlotDeletedLocally ==
  [][\A rid \in DOMAIN routines :
       \A sid \in SeqIds(routines[rid].slots) :
         (IsTempSlotId(sid) /\ SlotDeleted(rid, sid)) =>
           /\ server' = server
           /\ tempSent' = tempSent
           /\ rid \in DOMAIN db' => sid \notin SeqIds(db'[rid].slots)]_vars

\* C18: an online activateRoutine of routine B leaves exactly B active in the
\* in-memory routines and in the Local Store, whatever was active before: of
\* two online calls for A and then B, the second made after the first has
\* completed, only B is active at the end and A is not.
C18_LastActivationWins ==
  [][\A B \in DOMAIN routines :
       (~isOffline /\ ops' = ops + 1 /\ ActivateRoutineOf(B)) =>
         /\ ActiveIn(routines') = {B}
         /\ ActiveIn(db') = {B}]_vars

\* routine 2 is the active one, online, after at least two mutations, where
\* routine 1 was active at the start and nothing is pending
C18_Witness ==
  /\ ~isOffline
  /\ ops >= 2
  /\ Quiet
  /\ ActiveIn(routines) = {2}
  /\ ActiveIn(db) = {2}
  /\ ActiveIn(server) = {2}
  /\ 1 \in DOMAIN routines /\ 1 \in DOMAIN db
  /\ \A i \in DOMAIN db : ~db[i]._needsActivationSync /\ ~db[i]._needsDeactivationSync

\* C19: for every schema version v in 0..2 on disk, opening the database at
\* version 3 creates exactly the stores introduced after v (tasks, routines
\* and userData at 1, courses and materials at 2, teachers at 3) and leaves
\* every store that existed with its contents; after the open all six stores
\* exist.
C19_UpgradeAddsMissingStores ==
  [][(OpenDatabase /\ idb.version \in 0..2) =>
       LET v == idb.version
           introducedAfter ==
             (IF v < 1 THEN {"tasks", "routines", "userData"} ELSE {})
               \cup (IF v < 2 THEN {"courses", "materials"} ELSE {})
               \cup {"teachers"}
       IN /\ DOMAIN idb'.stores \ DOMAIN idb.stores = introducedAfter
          /\ \A s \in DOMAIN idb.stores :
                s \in DOMAIN idb'.stores /\ idb'.stores[s] = idb.stores[s]
          /\ DOMAIN idb'.stores = STORES
          /\ idb'.version = 3]_vars

\* a database of version 1 that held routines has been upgraded
C19_Witness ==
  /\ idbOldVersion = 1
  /\ idb.version = 3
  /\ DOMAIN idb.stores = STORES
  /\ idb.stores["routines"] # {}
  /\ idb.stores["teachers"] = {}

\* the request goes to the backend origin or names /api/ or /auth/
Sensitive(url) ==
  IncludesSupabase(url.host) \/ HasDir(url, "api") \/ HasDir(url, "auth")

\* C20: no response to a GET request to the backend origin (supabase.co) or
\* to a URL containing /api/ or /auth/ is written into a cache, and no such
\* request is answered from a cache, whatever its mode and destination.
C20_BackendNeverCached ==
  /\ \A name \in DOMAIN caches : \A url \in DOMAIN caches[name] : ~Sensitive(url)
  /\ (lastRequest.method = "GET" /\ Sensitive(lastRequest.url)) =>
       lastResponse.kind # "cache"

\* the step is a fetch event
Fetched == fetches' = fetches + 1

\* the last fetch event was a navigation the worker answered
NavigationAnswered ==
  /\ lastRequest # NoRequest
  /\ ~Skipped(lastRequest)
  /\ lastRequest.mode = "navigate"

\* C21: once the install event has completed, a navigation request whose
\* network attempt fails and for which no stored response matches is answered
\* with the stored copy of /offline.html, never with an error.
C21_OfflineFallback ==
  [][(/\ Fetched
      /\ NavigationAnswered'
      /\ lastNet' \in {"fail", "notOk"}
      /\ Matched(caches, lastRequest'.url) = {})
       => /\ lastResponse'.kind = "cache"
          /\ lastResponse'.body.url = OFFLINE_URL]_vars

\* C22: in the navigation, script/style and stale-while-revalidate
\* strategies, a fetch event whose network response has a non-OK status
\* writes nothing into the caches: every stored response keeps its content.
C22_NonOkNeverCached ==
  [][(Fetched /\ lastNet' = "notOk") => caches' = caches]_vars

\* a script whose stored copy dates from an earlier event has been requested
\* again, the refresh got a non-OK response and the stored copy is as it was
C22_Witness ==
  /\ lastRequest # NoRequest
  /\ ~Skipped(lastRequest)
  /\ lastRequest.mode # "navigate"
  /\ lastRequest.destination = "script"
  /\ lastNet = "notOk"
  /\ lastResponse.kind = "cache"
  /\ lastResponse.body.at < fetches
  /\ cachesMatch(caches, lastRequest.url).body = lastResponse.body

\* the step ends a piece of background work
TaskEnded == pending' # pending /\ pending' \subseteq pending

\* the step starts the refresh of a stored script, style or static asset
RefreshStarted ==
  /\ Fetched
  /\ RefreshTask(generation, lastRequest'.url) \in pending' \ pending

\* C23: for a static-asset request that has a stored response, the stored
\* response is delivered when the refresh has only been started, whatever
\* becomes of the refresh; when the refresh ends, the stored response is
\* replaced only if the network answered with status 200 and is left as it
\* was if the fetch failed or answered with any other status.
C23_StaleWhileRevalidate ==
  [][/\ RefreshStarted =>
          /\ lastResponse' = FromCache(cachesMatch(caches, lastRequest'.url))
          /\ caches' = caches
     /\ TaskEnded =>
          \A task \in pending \ pending' :
            caches' # caches => caches'[task.name][task.url].status = 200]_vars

\* the last fetch event was answered by the default strategy
DefaultAnswered ==
  /\ lastRequest # NoRequest
  /\ ~Skipped(lastRequest)
  /\ lastRequest.mode # "navigate"
  /\ lastRequest.destination \notin {"style", "script"}
  /\ ~shouldCacheAtRuntime(lastRequest.url)

\* C24: for a GET request of the default class the handler never rejects: a
\* network answer within 3 s is the response; when the network fails or the
\* timeout fires first the stored match is the response if there is one, a
\* synthesized 408 otherwise; a network answer that arrives after the timeout
\* changes neither the delivered response nor the caches.
C24_DefaultNeverRejects ==
  [][/\ (Fetched /\ DefaultAnswered') =>
          /\ lastResponse'.kind # "rejected"
          /\ lastNet' \in {"ok", "notOk"} =>
                lastResponse' =
                  FromNetwork(Response(NetStatus(lastNet'), lastRequest'.url, fetches'))
          /\ lastNet' \in {"fail", "slow"} =>
                lastResponse' =
                  IF Matched(caches, lastRequest'.url) # {}
                  THEN FromCache(cachesMatch(caches, lastRequest'.url))
                  ELSE Synthesized(408)
     /\ (TaskEnded /\ \E task \in pending \ pending' : task.op = "late") =>
          /\ caches' = caches
          /\ lastResponse' = lastResponse]_vars

\* C25: once the worker of generation nesttask-v5 has activated after the
\* one of nesttask-v4, no cache named nesttask-v4 exists, so that no lookup
\* can return a response stored under it, also when fetch handlers or
\* refreshes started under nesttask-v4 were still running at activation.
C25_OldGenerationGone ==
  generation = CACHE_NAME => OLD_CACHE_NAME \notin DOMAIN caches

\* C26: when the worker gets the message precacheAssets, every listed URL
\* the network can serve is eventually stored in the cache of the worker's
\* current generation.
C26_PrecacheStores ==
  \A url \in PREDICTABLE_ROUTES :
    (url \in asked /\ url \in reachable)
      ~> (url \in DOMAIN caches[CurrentCache(registered)])

\* C27: a cache lookup that rejects is handled like a lookup that finds
\* nothing: the handler does not reject (navigation and the default class
\* have their fallbacks) and a script, style or static asset is fetched from
\* the network, so that the synthesized 404 is only given when the network
\* failed too; and the end of a cache write, failed or not, leaves the
\* delivered response as it was.
C27_LookupFailureIsMiss ==
  [][/\ (Fetched /\ ~Skipped(lastRequest')) =>
          /\ lastResponse'.kind # "rejected"
          /\ lastResponse' = Synthesized(404) => lastNet' = "fail"
     /\ TaskEnded => lastResponse' = lastResponse]_vars

\* the rule list of the claim, first match wins
ClaimedStrategy(request) ==
  CASE \/ request.method # "GET"
       \/ request.url.protocol \notin {"http:", "https:"}
       \/ IncludesSupabase(request.url.host) -> "passThrough"
    [] OTHER ->
  CASE request.mode = "navigate" -> "networkFirst"
    [] OTHER ->
  CASE request.destination \in {"script", "style"} -> "cacheFirst"
    [] OTHER ->
  CASE /\ MatchesRuntimePattern(request.url)
       /\ ~HasDir(request.url, "api")
       /\ ~HasDir(request.url, "auth") -> "staleWhileRevalidate"
    [] OTHER -> "networkWithTimeout"

----------------------------------------------------------------------------
(* The activation state after a pass                                       *)

\* the snapshot's routines that carry both activation flags and are inactive:
\* with two mutations made, they were activated and then deactivated offline
ActivatedThenDeactivated ==
  {i \in DOMAIN pass[1].offlineRoutines :
     LET r == pass[1].offlineRoutines[i]
     IN /\ ~IsTempId(r.id)
        /\ ~RoutinePending(r)
        /\ r._needsActivationSync
        /\ r._needsDeactivationSync
        /\ ~r.isActive}

\* the snapshot's routines created offline and then activated offline
CreatedThenActivated ==
  {i \in DOMAIN pass[1].offlineRoutines :
     LET r == pass[1].offlineRoutines[i]
     IN /\ IsTempId(r.id)
        /\ r._isOffline
        /\ ~r._isOfflineDeleted
        /\ r._needsActivationSync
        /\ r.isActive}

\* C29: after a pass in which every remote call succeeded, the backend's
\* active state of a routine is the one the user last set for it offline: a
\* routine activated and then deactivated offline is inactive on the backend,
\* and a routine created and then activated offline is active there.
C29_LastActiveStateSynced ==
  (PassDone /\ pass[1].syncErrors = 0 /\ ops = 2) =>
    /\ \A i \in ActivatedThenDeactivated :
         LET id == pass[1].offlineRoutines[i].id
         IN id \in DOMAIN server => ~server[id].isActive
    /\ \A i \in CreatedThenActivated :
         \A pair \in pass[1].created :
           pair[1] = pass[1].offlineRoutines[i].id =>
             (pair[2] \in DOMAIN server /\ server[pair[2]].isActive)

----------------------------------------------------------------------------
(* Pending flags across offline mutations                                  *)

\* the flags of a routine record that a later pass acts on
PendingFlags ==
  {"_isOffline", "_isOfflineUpdated", "_isOfflineDeleted", "_needsDeactivationSync"}

\* an offline call of a handler that edits slots or the activation
OfflineMutation ==
  /\ isOffline
  /\ ops' = ops + 1
  /\ \/ AddRoutineSlot
     \/ BulkImportRoutineSlots
     \/ UpdateRoutineSlot
     \/ DeleteRoutineSlot
     \/ ActivateRoutine
     \/ DeactivateRoutine

\* C30: an offline addRoutineSlot, bulkImportRoutineSlots, updateRoutineSlot,
\* deleteRoutineSlot, activateRoutine or deactivateRoutine removes no pending
\* flag (_isOffline, _isOfflineUpdated, _isOfflineDeleted,
\* _needsDeactivationSync) that the Local Store holds on any routine.
C30_PendingFlagsKept ==
  [][OfflineMutation =>
       \A id \in DOMAIN db : \A f \in PendingFlags :
         db[id][f] => (id \in DOMAIN db' /\ db'[id][f])]_vars

----------------------------------------------------------------------------
(* Routines deleted offline                                                *)

\* the routines the Local Store holds as deleted offline
Tombstoned == {id \in DOMAIN db : db[id]._isOfflineDeleted}

\* C31: a routine deleted while offline, that is one the Local Store marks
\* _isOfflineDeleted, is absent from the in-memory routines in every state
\* until it is reconciled, also after loadRoutines read the Local Store.
C31_TombstonedNotListed ==
  \A id \in Tombstoned : id \notin DOMAIN routines

----------------------------------------------------------------------------
(* Overlapping activations                                                 *)

\* both activateRoutine calls have run to their end, for different routines
BothActivated ==
  /\ \A c \in Calls : activations[c].pc = "done"
  /\ activations[1].routineId # activations[2].routineId

\* C32: once two online activateRoutine calls for different routines have
\* both completed, the in-memory state, the Local Store and the backend
\* agree on the single active routine, however their steps interleaved.
C32_OverlappingActivationsAgree ==
  BothActivated =>
    /\ Cardinality(ActiveIn(server)) = 1
    /\ ActiveIn(routines) = ActiveIn(server)
    /\ ActiveIn(db) = ActiveIn(server)

----------------------------------------------------------------------------
(* Remote creates of offline-created items                                 *)

\* the remote creates of routines and slots that succeeded in pass p, each
\* named by the temp ids of the item it was issued for
CreatesDone(p) == {op \in pass[p].ok : op[1] \in {"create", "addSlot"}}

\* C33: for a routine or slot created offline at most one remote create
\* succeeds, also when a second pass starts before the first has committed:
\* no two passes hold a successful create for the same item.
C33_CreatedAtMostOnce ==
  \A p, q \in Passes : p # q => CreatesDone(p) \cap CreatesDone(q) = {}

----------------------------------------------------------------------------
(* Records written while a pass is in flight                               *)

\* the records pass p read at its start
SnapshotOf(p) ==
  {pass[p].offlineRoutines[i] : i \in DOMAIN pass[p].offlineRoutines}

\* the step of pass p that clears the collection, the first half of its commit
CommitStarts(p) == pass[p].pc = "clear" /\ pass'[p].pc = "save"

\* C34: a record that another operation wrote to the routines collection
\* after a pass read its snapshot survives the pass's commit with its
\* content: when the commit clears the collection, every stored record that
\* differs from the snapshot is among the records the commit saves back.
C34_ConcurrentWritesSurvive ==
  [][\A p \in Passes :
       CommitStarts(p) =>
         \A id \in DOMAIN db :
           db[id] \notin SnapshotOf(p) =>
             /\ id \in DOMAIN pass[p].syncedRoutines
             /\ pass[p].syncedRoutines[id] = db[id]]_vars

----------------------------------------------------------------------------
(* The Local Store after a pass that reports success                       *)

\* a stored routine or one of its slots carries a flag a pass acts on
CarriesPendingFlag(r) ==
  \/ RoutinePending(r)
  \/ r._needsActivationSync
  \/ r._needsDeactivationSync
  \/ \E k \in DOMAIN r.slots : SlotPending(r.slots[k])

\* C35: when syncOfflineChanges has returned true, and no mutation ran during
\* the pass, no routine and no slot of the Local Store carries _isOffline,
\* _isOfflineUpdated, _isOfflineDeleted, _needsActivationSync or
\* _needsDeactivationSync.
C35_SuccessLeavesNoFlag ==
  (PassDone /\ pass[1].result) => \A id \in DOMAIN db : ~CarriesPendingFlag(db[id])

----------------------------------------------------------------------------
(* What an intercepted request is answered with                            *)

\* C36: every GET request the fetch handler intercepts is answered with a
\* defined response (from the network, from a cache, the offline fallback or
\* a synthesized 404/408), never with undefined and never with a rejection,
\* whatever the network answered, the caches hold and the precache stored.
C36_AlwaysDefinedResponse ==
  (lastRequest # NoRequest /\ ~Skipped(lastRequest)) =>
    lastResponse.kind \in {"network", "cache", "synthesized"}

----------------------------------------------------------------------------
(* The worker's syncData                                                   *)

\* syncData has just applied a server result
ResultApplied == syncPc = "fetch" /\ syncPc' = "done" /\ syncResult' # Empty

\* C37: for every item of the server's sync result, syncData deletes the item
\* from the local collection when the result marks it _isOfflineDeleted and
\* otherwise stores it without _isOffline, _isOfflineUpdated and
\* _isOfflineDeleted; no item the result marks deleted is in the collection
\* afterwards.
C37_SyncResultApplied ==
  [][ResultApplied =>
       \A id \in DOMAIN syncResult' :
         IF syncResult'[id]._isOfflineDeleted
         THEN id \notin DOMAIN collection'
         ELSE /\ id \in DOMAIN collection'
              /\ collection'[id] = DeleteFlags(syncResult'[id])]_vars

----------------------------------------------------------------------------
(* applyUpdate                                                             *)

\* call u resolves in this step
ResolvesNow(u) == applyCalls[u].pc # "resolved" /\ applyCalls'[u].pc = "resolved"

\* the value a call resolves with, by the return statement it took: true when
\* controllerchange fired after SKIP_WAITING was posted, false otherwise
ValueByExit(call) == call.value = (call.exit = "controllerchange")

\* every call that was made resolves
EveryCallResolves ==
  \A u \in Updates : (applyCalls[u].pc # "idle") ~> (applyCalls[u].pc = "resolved")

\* C38 as stated: every call of applyUpdate eventually resolves, false when
\* service workers are unsupported, no registration exists, no worker waits
\* or an error occurs, true when controllerchange fires after SKIP_WAITING was
\* posted, false after 10 s without it; and updateInProgress is false once
\* the call has resolved.
C38_ResolvesFlagCleared ==
  /\ EveryCallResolves
  /\ [][\A u \in Updates :
          ResolvesNow(u) => (ValueByExit(applyCalls'[u]) /\ ~updateInProgress')]_vars

\* C38, amended: the same, with updateInProgress false once a call that
\* passed the guard of line 48 has resolved; a call refused by the guard
\* because another is in progress resolves false and leaves the flag as it is.
C38_ResolvesFlagClearedByOwner ==
  /\ EveryCallResolves
  /\ [][\A u \in Updates :
          ResolvesNow(u) =>
            /\ ValueByExit(applyCalls'[u])
            /\ IF applyCalls'[u].exit = "inProgress"
               THEN updateInProgress' = updateInProgress
               ELSE ~updateInProgress']_vars

\* a call refused by the guard has resolved false, and the call it was
\* refused for has resolved true on controllerchange
C38_Witness ==
  /\ applyCalls[1] = Resolved("controllerchange", TRUE)
  /\ applyCalls[2] = Resolved("inProgress", FALSE)
  /\ ~updateInProgress

\* the calls that are past the guard and have not resolved
PastGuard == {u \in Updates : applyCalls[u].pc \in {"registrations", "listening"}}

\* C39: at most one applyUpdate call is past its updateInProgress guard at
\* any time, under every interleaving with resetUpdateNotificationState,
\* triggerManualUpdateCheck and initServiceWorkerUpdates.
C39_OneUpdateAtATime == Cardinality(PastGuard) <= 1

----------------------------------------------------------------------------
(* initOfflineStorage                                                      *)

\* the space the platform reports as available
Available == estimate.quota - estimate.usage

\* C40: at startup clearNonCriticalData is called only when the available
\* space quota - usage that the platform reports is below 100 MB, for all
\* quota and usage values, usage = 0 included; and it clears only userData,
\* materials and teachers, never tasks, routines or courses.
C40_ClearsOnlyUnderPressure ==
  /\ clearCalls > 0 => (estimate.supported /\ Available < LOW_SPACE)
  /\ clearedStores \subseteq {"userData", "materials", "teachers"}

====
